---- MODULE Spec2Model ----
(***************************************************************************)
(* Market-Screener: walk-forward backtest (screener/backtester.py),        *)
(* scoring, combo recommendation, alert generation and Trend Following     *)
(* entry detection (screener/alerts.py), the alert history                 *)
(* (screener/alert_history.py) and the auto-save scheduler                 *)
(* (screener/scheduler.py).                                                *)
(*                                                                         *)
(* Numbers.  Prices are integers in hundredths of a currency unit, so that *)
(* round(price, 2) is exact.  Percent returns are integers in hundredths   *)
(* of a percent (return_5d = 1000 is +10.00%), win rates are integers in   *)
(* tenths of a percent, Volume_Ratio is in tenths (15 is 1.5x).  A float   *)
(* NaN is the integer NaN, outside the range of every value used, and the  *)
(* comparisons of code with a NaN operand are false, as in Python.         *)
(*                                                                         *)
(* Indices.  The code's positions are 0-based; At(df, i) is df.iloc[i].    *)
(*                                                                         *)
(* The indicator engine (talib, called by compute_all) and the candlestick *)
(* scanner are outside the repository.  A bar of a history carries the     *)
(* row the engine yields for the window that ends at that bar: the         *)
(* indicator columns of compute_all(window).iloc[-1] and the patterns of   *)
(* scan_all_patterns(window).  Breakouts are computed from the closes.     *)
(***************************************************************************)
EXTENDS Integers, Sequences, FiniteSets, TLC

VARIABLES
    pc,            \* position of the running call
    df,            \* the history given to backtest_combo
    symbol,        \* its symbol
    combo,         \* the archetype under test
    lookback_days, \* the lookback length
    i,             \* loop index of backtest_combo
    skip_until,    \* skip-ahead cursor of backtest_combo
    trades,        \* trades recorded so far
    result,        \* value returned by backtest_combo
    df_alt,        \* a second history, for comparing two runs
    trades_alt,    \* trades recorded by the run on df_alt
    result_alt,    \* value returned by backtest_combo on df_alt
    data,          \* the batch input: sequence of <<symbol, history>>
    results,       \* the list built by backtest_batch
    strategy,      \* strategy argument of detect_entry_signal
    nbars,         \* len(df) of the frame given to detect_entry_signal
    last,          \* enriched final row given to the entry checkers
    bull,          \* result of _check_trend_following_entry
    bear,          \* result of _check_bearish_trend_following_entry
    entries,       \* list returned by detect_entry_signal
    frame,         \* the last bars of the frame given to score_stock
    frame_len,     \* len(df) of the frame given to score_stock
    scored,        \* value returned by score_stock
    rec,           \* value returned by recommend_combo
    fired,         \* value returned by detect_combo_signal on df
    min_score,     \* threshold given to generate_alerts
    alert_data,    \* input of generate_alerts: sequence of <<symbol, bars, frame>>
    rows,          \* rows collected by generate_alerts
    df_alerts,     \* frame returned by generate_alerts
    history,       \* stored alert history, a list of records
    today,         \* local calendar day, a day number
    last_run,      \* scheduler state: market -> day of the last run, 0 for none
    market_closed, \* market -> whether its clock is past the close
    fetches,       \* market -> calls of fetch_batch made on the current day
    returned,      \* value returned by the last call on the store
    call           \* name of the last call on the store

vars == <<pc, df, symbol, combo, lookback_days, i, skip_until, trades, result,
          df_alt, trades_alt, result_alt, data, results,
          strategy, nbars, last, bull, bear, entries,
          frame, frame_len, scored, rec, fired,
          min_score, alert_data, rows, df_alerts,
          history, today, last_run, market_closed, fetches, returned, call>>

btVars    == <<df, symbol, combo, lookback_days, i, skip_until, trades, result>>
pairVars  == <<df_alt, trades_alt, result_alt>>
batchVars == <<data, results>>
entryVars == <<strategy, nbars, last, bull, bear, entries>>
scoreVars == <<frame, frame_len, scored, rec>>
alertVars == <<min_score, alert_data, rows, df_alerts>>
storeVars == <<history, today, last_run, market_closed, fetches, returned, call>>

----------------------------------------------------------------------------
(* Bounds of the model *)

MinLen == 69        \* shortest history
MaxLen == 72        \* longest of the short histories
LongLen == 226      \* a history long enough for EMA_200 to be defined
Span == 6           \* bars before the end of the scan range that may signal

----------------------------------------------------------------------------
(* Program constants *)

NaN == -1000000

MIN_BARS_DETECT == 50
MIN_BARS_BACKTEST == 70
FORWARD_BARS == 20
SCAN_FLOOR == 50
SKIP_BARS == 5
DEFAULT_LOOKBACK == 252

RSI_PERIOD == 14
MACD_SLOW == 26
MACD_SIGNAL == 9
BB_PERIOD == 20
ADX_PERIOD == 14
CONSOLIDATION_LOOKBACK == 15
BREAKOUT_PERMILLE == 25     \* BREAKOUT_PERCENTAGE = 2.5

Combos == <<"Trend Following", "Mean Reversion", "Breakout", "Sell/Short">>

REVERSAL_PATTERNS ==
    {"Hammer", "Morning Star", "Morning Doji Star", "Engulfing Pattern",
     "Piercing Pattern", "Three Advancing White Soldiers", "Inverted Hammer",
     "Abandoned Baby"}

----------------------------------------------------------------------------
(* Float helpers *)

notna(x) == x # NaN

Min2(a, b) == IF a <= b THEN a ELSE b
Max2(a, b) == IF a >= b THEN a ELSE b
Abs(x) == IF x < 0 THEN -x ELSE x

\* round(n / d) for d > 0, ties to even, as Python's round
RoundDiv(n, d) ==
    LET q == n \div d
        r == n % d
    IN  IF 2 * r < d THEN q
        ELSE IF 2 * r > d THEN q + 1
        ELSE IF q % 2 = 0 THEN q ELSE q + 1

RECURSIVE SumSeq(_)
SumSeq(s) == IF s = <<>> THEN 0 ELSE Head(s) + SumSeq(Tail(s))

RECURSIVE CountPos(_)
CountPos(s) ==
    IF s = <<>> THEN 0
    ELSE (IF Head(s) > 0 THEN 1 ELSE 0) + CountPos(Tail(s))

\* df.iloc[i] and df.iloc[:i + 1], 0-based
At(h, k) == h[k + 1]
Window_ahead(h, k) == SubSeq(h, 1, Min2(k + 2, Len(h)))
Window(h, k) == SubSeq(h, 1, k + 1)

----------------------------------------------------------------------------
(* Histories.  Row(kind, k, c) is the bar at position k with close c and   *)
(* the engine's row for the window ending there; an indicator is NaN while *)
(* the window is shorter than its warm-up.                                 *)

Warm(k, bars, v) == IF k < bars - 1 THEN NaN ELSE v

Profile(kind, c) ==
    CASE kind = "BullAll" ->
           [RSI |-> 25, MACD |-> 5, MACD_Signal |-> 3,
            EMA_20 |-> c - 10, EMA_50 |-> c - 20, EMA_200 |-> c - 30,
            BB_Upper |-> c + 95, BB_Lower |-> c - 5,
            ADX |-> 30, Plus_DI |-> 30, Minus_DI |-> 10, Volume_Ratio |-> 20,
            patterns |-> {<<"Hammer", "bullish">>}]
      [] kind = "Partial" ->
           [RSI |-> 25, MACD |-> 5, MACD_Signal |-> 3,
            EMA_20 |-> c - 10, EMA_50 |-> c - 20, EMA_200 |-> c - 30,
            BB_Upper |-> c + 50, BB_Lower |-> c - 50,
            ADX |-> 20, Plus_DI |-> 30, Minus_DI |-> 10, Volume_Ratio |-> 20,
            patterns |-> {<<"Doji", "bullish">>}]
      [] kind = "BearBand" ->
           [RSI |-> 75, MACD |-> -5, MACD_Signal |-> -3,
            EMA_20 |-> c + 10, EMA_50 |-> c + 20, EMA_200 |-> c + 30,
            BB_Upper |-> c + 5, BB_Lower |-> c - 95,
            ADX |-> 30, Plus_DI |-> 10, Minus_DI |-> 30, Volume_Ratio |-> 20,
            patterns |-> {}]
      [] kind = "BearPat" ->
           [RSI |-> 75, MACD |-> -5, MACD_Signal |-> -3,
            EMA_20 |-> c + 10, EMA_50 |-> c + 20, EMA_200 |-> c + 30,
            BB_Upper |-> c + 50, BB_Lower |-> c - 50,
            ADX |-> 30, Plus_DI |-> 10, Minus_DI |-> 30, Volume_Ratio |-> 10,
            patterns |-> {<<"Shooting Star", "bearish">>}]
      [] OTHER ->
           [RSI |-> 50, MACD |-> 0, MACD_Signal |-> 0,
            EMA_20 |-> c, EMA_50 |-> c, EMA_200 |-> c,
            BB_Upper |-> c + 50, BB_Lower |-> c - 50,
            ADX |-> 15, Plus_DI |-> 20, Minus_DI |-> 20, Volume_Ratio |-> 10,
            patterns |-> {}]

Row(kind, k, c) ==
    LET p == Profile(kind, c)
    IN  [Date |-> k, Close |-> c,
         RSI |-> Warm(k, RSI_PERIOD + 1, p.RSI),
         MACD |-> Warm(k, MACD_SLOW + MACD_SIGNAL - 1, p.MACD),
         MACD_Signal |-> Warm(k, MACD_SLOW + MACD_SIGNAL - 1, p.MACD_Signal),
         EMA_20 |-> Warm(k, 20, p.EMA_20),
         EMA_50 |-> Warm(k, 50, p.EMA_50),
         EMA_200 |-> Warm(k, 200, p.EMA_200),
         BB_Upper |-> Warm(k, BB_PERIOD, p.BB_Upper),
         BB_Lower |-> Warm(k, BB_PERIOD, p.BB_Lower),
         ADX |-> Warm(k, 2 * ADX_PERIOD, p.ADX),
         Plus_DI |-> Warm(k, ADX_PERIOD + 1, p.Plus_DI),
         Minus_DI |-> Warm(k, ADX_PERIOD + 1, p.Minus_DI),
         Volume_Ratio |-> Warm(k, 20, p.Volume_Ratio),
         patterns |-> p.patterns]

Shapes == {"up", "down", "saw", "zero"}
HotKinds == {"BullAll", "Partial", "BearBand", "BearPat"}

\* the close of bar k in a history of n bars
CloseOf(shape, n, k) ==
    LET a == n - FORWARD_BARS - Span
    IN  CASE shape = "up"   -> 1000 + Max2(0, k - (a - 10))
          [] shape = "down" -> 1000 - 20 * (k - a)
          [] shape = "saw"  -> 1000 + 100 * ((k % 3) - 1)
          [] OTHER          -> IF k = a + 2 THEN 0 ELSE 1000

\* bar k of a history of n bars: the bars at end_idx + j, j in J, and every
\* bar from end_idx on carry the profile kind, the other bars are neutral
HistoryRow(n, shape, kind, J, k) ==
    LET off == k - (n - FORWARD_BARS)
    IN  Row(IF off >= 0 \/ off \in J THEN kind ELSE "Neutral",
            k, CloseOf(shape, n, k))

History(n, shape, kind, J) ==
    [p \in 1..n |-> HistoryRow(n, shape, kind, J, p - 1)]

Lens == (MinLen..MaxLen) \cup {LongLen}
Offsets == (0 - Span)..(0 - 1)
Lookbacks(n) == IF n > MaxLen THEN {3, Span} ELSE {DEFAULT_LOOKBACK}

----------------------------------------------------------------------------
(* technical_indicators.generate_signals: the signal strings of the last   *)
(* row of an enriched window, without their formatted numbers; a key that  *)
(* the code leaves out reads as "" (signals.get(key, '')).                 *)

Lt(a, b) == notna(a) /\ notna(b) /\ a < b
Gt(a, b) == notna(a) /\ notna(b) /\ a > b
Le(a, b) == notna(a) /\ notna(b) /\ a <= b
Ge(a, b) == notna(a) /\ notna(b) /\ a >= b

generate_signals(w) ==
    LET row  == w[Len(w)]
        prev == w[Len(w) - 1]
        c    == row.Close
        bb_range == row.BB_Upper - row.BB_Lower
    IN  [RSI |->
            IF notna(row.RSI)
            THEN (IF row.RSI < 30 THEN "Oversold"
                  ELSE IF row.RSI > 70 THEN "Overbought" ELSE "Neutral")
            ELSE "",
         MACD |->
            IF notna(row.MACD) /\ notna(row.MACD_Signal)
            THEN (IF row.MACD > row.MACD_Signal
                     /\ Le(prev.MACD, prev.MACD_Signal)
                  THEN "Bullish Crossover"
                  ELSE IF row.MACD < row.MACD_Signal
                          /\ Ge(prev.MACD, prev.MACD_Signal)
                  THEN "Bearish Crossover"
                  ELSE IF row.MACD > row.MACD_Signal THEN "Bullish"
                  ELSE "Bearish")
            ELSE "",
         EMA_Trend |->
            IF notna(c) /\ notna(row.EMA_20) /\ notna(row.EMA_50)
               /\ notna(row.EMA_200)
            THEN (IF c > row.EMA_20 /\ row.EMA_20 > row.EMA_50
                     /\ row.EMA_50 > row.EMA_200 THEN "Strong Bullish"
                  ELSE IF c < row.EMA_20 /\ row.EMA_20 < row.EMA_50
                          /\ row.EMA_50 < row.EMA_200 THEN "Strong Bearish"
                  ELSE IF c > row.EMA_200 THEN "Bullish"
                  ELSE IF c < row.EMA_200 THEN "Bearish"
                  ELSE "Mixed")
            ELSE "",
         BB |->
            IF notna(row.BB_Upper) /\ notna(row.BB_Lower) /\ notna(c)
               /\ bb_range > 0
            THEN (IF (c - row.BB_Lower) * 10 < bb_range
                  THEN "Near Lower Band"
                  ELSE IF (c - row.BB_Lower) * 10 > 9 * bb_range
                  THEN "Near Upper Band"
                  ELSE "Mid-Band")
            ELSE "",
         ADX |->
            IF notna(row.ADX) /\ notna(row.Plus_DI) /\ notna(row.Minus_DI)
            THEN (IF row.ADX > 25
                  THEN (IF row.Plus_DI > row.Minus_DI
                        THEN "Strong Bullish Trend"
                        ELSE "Strong Bearish Trend")
                  ELSE "Weak/No Trend")
            ELSE "",
         Volume |->
            IF notna(row.Volume_Ratio)
            THEN (IF row.Volume_Ratio > 15 THEN "High Volume"
                  ELSE IF row.Volume_Ratio < 5 THEN "Low Volume"
                  ELSE "Normal")
            ELSE ""]

\* Python's  sub in s  over the signal strings above
In(sub, s) ==
    CASE sub = "Bullish" ->
           s \in {"Bullish", "Strong Bullish", "Bullish Crossover",
                  "Strong Bullish Trend"}
      [] sub = "Bearish" ->
           s \in {"Bearish", "Strong Bearish", "Bearish Crossover",
                  "Strong Bearish Trend"}
      [] sub = "Strong Bullish" -> s \in {"Strong Bullish", "Strong Bullish Trend"}
      [] sub = "Strong Bearish" -> s \in {"Strong Bearish", "Strong Bearish Trend"}
      [] sub = "Oversold" -> s = "Oversold"
      [] sub = "Overbought" -> s = "Overbought"
      [] sub = "Lower" -> s = "Near Lower Band"
      [] sub = "Upper" -> s = "Near Upper Band"
      [] sub = "High" -> s = "High Volume"
      [] sub = "Weak" -> s = "Weak/No Trend"
      [] OTHER -> FALSE

----------------------------------------------------------------------------
(* breakout_detector *)

Closes(w) == {w[p].Close : p \in 1..Len(w)}
SetMax(S) == CHOOSE x \in S : \A y \in S : y <= x
SetMin(S) == CHOOSE x \in S : \A y \in S : x <= y

\* df.tail(lookback)
TailRows(w, m) == IF Len(w) <= m THEN w ELSE SubSeq(w, Len(w) - m + 1, Len(w))

is_consolidating(w, lookback, permille) ==
    LET recent == TailRows(w, lookback)
    IN  IF Len(recent) < lookback THEN FALSE
        ELSE SetMin(Closes(recent)) * 1000
                > SetMax(Closes(recent)) * (1000 - permille)

is_breaking_out(w) ==
    IF Len(w) < CONSOLIDATION_LOOKBACK + 2 THEN FALSE
    ELSE LET last_close == w[Len(w)].Close
             prior == SubSeq(w, 1, Len(w) - 1)
         IN  /\ is_consolidating(prior, CONSOLIDATION_LOOKBACK, BREAKOUT_PERMILLE)
             /\ last_close > SetMax(Closes(TailRows(prior, CONSOLIDATION_LOOKBACK)))

is_breaking_down_flipped(w) ==
    IF Len(w) < CONSOLIDATION_LOOKBACK + 2 THEN FALSE
    ELSE LET last_close == w[Len(w)].Close
             prior == SubSeq(w, 1, Len(w) - 1)
         IN  /\ is_consolidating(prior, CONSOLIDATION_LOOKBACK, BREAKOUT_PERMILLE)
             /\ last_close > SetMin(Closes(TailRows(prior, CONSOLIDATION_LOOKBACK)))

is_breaking_down(w) ==
    IF Len(w) < CONSOLIDATION_LOOKBACK + 2 THEN FALSE
    ELSE LET last_close == w[Len(w)].Close
             prior == SubSeq(w, 1, Len(w) - 1)
         IN  /\ is_consolidating(prior, CONSOLIDATION_LOOKBACK, BREAKOUT_PERMILLE)
             /\ last_close < SetMin(Closes(TailRows(prior, CONSOLIDATION_LOOKBACK)))

----------------------------------------------------------------------------
(* backtester.detect_combo_signal *)

detect_combo_signal_either(w, c) ==
    IF Len(w) < MIN_BARS_DETECT THEN FALSE
    ELSE
      LET signals == generate_signals(w)
          patterns == w[Len(w)].patterns
          bull_patterns == {q[1] : q \in {x \in patterns : x[2] = "bullish"}}
          bear_patterns == {q[1] : q \in {x \in patterns : x[2] = "bearish"}}
          has_reversal == \E q \in bull_patterns : q \in REVERSAL_PATTERNS
          adx_val == w[Len(w)].ADX
          adx_ok == notna(adx_val) /\ adx_val > 25
      IN  CASE c = "Trend Following" ->
                 /\ In("Bullish", signals.EMA_Trend)
                 /\ adx_ok
                 /\ In("High", signals.Volume)
                 /\ bull_patterns # {}
            [] c = "Mean Reversion" ->
                 /\ In("Oversold", signals.RSI)
                 /\ (In("Lower", signals.BB) \/ has_reversal)
            [] c = "Breakout" ->
                 /\ is_breaking_out(w)
                 /\ In("High", signals.Volume)
                 /\ In("Bullish", signals.MACD)
            [] c = "Sell/Short" ->
                 /\ In("Overbought", signals.RSI)
                 /\ (In("Upper", signals.BB) \/ bear_patterns # {})
            [] OTHER -> FALSE

detect_combo_signal(w, c) ==
    IF Len(w) < MIN_BARS_DETECT THEN FALSE
    ELSE
      LET signals == generate_signals(w)
          patterns == w[Len(w)].patterns
          bull_patterns == {q[1] : q \in {x \in patterns : x[2] = "bullish"}}
          bear_patterns == {q[1] : q \in {x \in patterns : x[2] = "bearish"}}
          has_reversal == \E q \in bull_patterns : q \in REVERSAL_PATTERNS
          adx_val == w[Len(w)].ADX
          adx_ok == notna(adx_val) /\ adx_val > 25
      IN  CASE c = "Trend Following" ->
                 /\ In("Bullish", signals.EMA_Trend)
                 /\ adx_ok
                 /\ In("High", signals.Volume)
                 /\ bull_patterns # {}
            [] c = "Mean Reversion" ->
                 /\ In("Oversold", signals.RSI)
                 /\ In("Lower", signals.BB)
                 /\ has_reversal
            [] c = "Breakout" ->
                 /\ is_breaking_out(w)
                 /\ In("High", signals.Volume)
                 /\ In("Bullish", signals.MACD)
            [] c = "Sell/Short" ->
                 /\ In("Overbought", signals.RSI)
                 /\ (In("Upper", signals.BB) \/ bear_patterns # {})
            [] OTHER -> FALSE

----------------------------------------------------------------------------
(* backtester.backtest_combo *)

empty(sym, c) ==
    [combo |-> c, symbol |-> sym, total_signals |-> 0,
     win_rate_5d |-> 0, win_rate_10d |-> 0, win_rate_20d |-> 0,
     avg_return_5d |-> 0, avg_return_10d |-> 0, avg_return_20d |-> 0,
     trades |-> <<>>]

\* stands for "no value returned (yet)"
NotReturned ==
    [combo |-> "", symbol |-> "", total_signals |-> -1,
     win_rate_5d |-> 0, win_rate_10d |-> 0, win_rate_20d |-> 0,
     avg_return_5d |-> 0, avg_return_10d |-> 0, avg_return_20d |-> 0,
     trades |-> <<>>]

\* the exception of a division by a zero entry price
Raised == [NotReturned EXCEPT !.combo = "ZeroDivisionError"]

\* variants of the code, each with one plausible slip
end_idx_19(h) == Len(h) - (FORWARD_BARS - 1)
start_idx_49(h, lookback) == Max2(SCAN_FLOOR - 1, Len(h) - FORWARD_BARS - lookback)

end_idx(h) == Len(h) - FORWARD_BARS
start_idx(h, lookback) == Max2(SCAN_FLOOR, end_idx(h) - lookback)

ForwardReturn_long(h, k, ahead, c) ==
    RoundDiv((At(h, Min2(k + ahead, Len(h) - 1)).Close - At(h, k).Close) * 10000,
             At(h, k).Close)

\* round((close[idx] - entry_price) / entry_price * 100, 2), sign applied
\* before rounding
ForwardReturn(h, k, ahead, c) ==
    LET entry_price == At(h, k).Close
        idx == Min2(k + ahead, Len(h) - 1)
        num == (At(h, idx).Close - entry_price) * 10000
    IN  RoundDiv(IF c = "Sell/Short" THEN 0 - num ELSE num, entry_price)

ScanStep_skip4(h, c, k, st) ==
    IF k < st.skip_until THEN st
    ELSE IF ~ detect_combo_signal(Window(h, k), c) THEN st
    ELSE IF At(h, k).Close = 0 THEN [st EXCEPT !.raised = TRUE]
    ELSE [st EXCEPT
            !.trades = Append(@,
                [entry_date  |-> At(h, k).Date,
                 entry_price |-> At(h, k).Close,
                 return_5d   |-> ForwardReturn(h, k, 5, c),
                 return_10d  |-> ForwardReturn(h, k, 10, c),
                 return_20d  |-> ForwardReturn(h, k, 20, c)]),
            !.skip_until = k + SKIP_BARS - 1]

\* one iteration of the loop at index k; st = [skip_until, trades, raised]
ScanStep(h, c, k, st) ==
    IF k < st.skip_until THEN st
    ELSE IF ~ detect_combo_signal(Window(h, k), c) THEN st
    ELSE IF At(h, k).Close = 0 THEN [st EXCEPT !.raised = TRUE]
    ELSE [st EXCEPT
            !.trades = Append(@,
                [entry_date  |-> At(h, k).Date,
                 entry_price |-> At(h, k).Close,
                 return_5d   |-> ForwardReturn(h, k, 5, c),
                 return_10d  |-> ForwardReturn(h, k, 10, c),
                 return_20d  |-> ForwardReturn(h, k, 20, c)]),
            !.skip_until = k + SKIP_BARS]

Column(ts, f) == [p \in 1..Len(ts) |-> ts[p][f]]

WinRate_ge(r) ==
    RoundDiv(Cardinality({p \in 1..Len(r) : r[p] >= 0}) * 1000, Len(r))

WinRate(r) == RoundDiv(CountPos(r) * 1000, Len(r))
AvgReturn(r) == RoundDiv(SumSeq(r), Len(r))

Aggregate_winners(sym, c, ts) ==
    [empty(sym, c) EXCEPT !.total_signals = CountPos(Column(ts, "return_5d")),
                          !.trades = ts]

\* the value returned after the loop
Aggregate(sym, c, ts) ==
    IF ts = <<>> THEN empty(sym, c)
    ELSE [combo |-> c, symbol |-> sym, total_signals |-> Len(ts),
          win_rate_5d  |-> WinRate(Column(ts, "return_5d")),
          win_rate_10d |-> WinRate(Column(ts, "return_10d")),
          win_rate_20d |-> WinRate(Column(ts, "return_20d")),
          avg_return_5d  |-> AvgReturn(Column(ts, "return_5d")),
          avg_return_10d |-> AvgReturn(Column(ts, "return_10d")),
          avg_return_20d |-> AvgReturn(Column(ts, "return_20d")),
          trades |-> ts]

RECURSIVE ScanFrom(_, _, _, _)
ScanFrom(h, c, k, st) ==
    IF k >= end_idx(h) \/ st.raised THEN st
    ELSE ScanFrom(h, c, k + 1, ScanStep(h, c, k, st))

\* the whole call: value is what it returns (or Raised), trades the list
\* it has appended by then
run_backtest(h, sym, c, lookback) ==
    IF Len(h) < MIN_BARS_BACKTEST
    THEN [value |-> empty(sym, c), trades |-> <<>>]
    ELSE LET st == ScanFrom(h, c, start_idx(h, lookback),
                            [skip_until |-> 0, trades |-> <<>>, raised |-> FALSE])
         IN  [value |-> IF st.raised THEN Raised ELSE Aggregate(sym, c, st.trades),
              trades |-> st.trades]

backtest_combo(h, sym, c, lookback) == run_backtest(h, sym, c, lookback).value

----------------------------------------------------------------------------
(* Values of the variables a specification does not use *)

NoRow == [Date |-> 0]
IdleBacktest ==
    /\ df = <<>> /\ symbol = "" /\ combo = "" /\ lookback_days = 0
    /\ i = 0 /\ skip_until = 0 /\ trades = <<>> /\ result = NotReturned
IdlePair == df_alt = <<>> /\ trades_alt = <<>> /\ result_alt = NotReturned
IdleBatch == data = <<>> /\ results = <<>>
IdleEntry == strategy = "" /\ nbars = 0 /\ last = NoRow /\ bull = NoRow /\ bear = NoRow /\ entries = <<>>
IdleScore == frame = <<>> /\ frame_len = 0 /\ scored = NoRow /\ rec = NoRow
IdleDetect == fired = FALSE
IdleAlerts == min_score = 0 /\ alert_data = <<>> /\ rows = <<>> /\ df_alerts = <<>>
IdleStore ==
    /\ history = <<>> /\ today = 0 /\ last_run = <<>> /\ market_closed = <<>>
    /\ fetches = <<>> /\ returned = 0 /\ call = ""

----------------------------------------------------------------------------
(* Spec: one call of backtest_combo, one loop iteration per step *)

Init ==
    /\ pc = "call"
    /\ \E n \in Lens, shape \in Shapes, kind \in HotKinds, J \in SUBSET Offsets :
          df = History(n, shape, kind, J)
    /\ symbol = "SYM"
    /\ combo \in {Combos[p] : p \in 1..Len(Combos)}
    /\ lookback_days \in Lookbacks(Len(df))
    /\ i = 0 /\ skip_until = 0 /\ trades = <<>> /\ result = NotReturned
    /\ IdlePair /\ IdleBatch /\ IdleEntry /\ IdleScore
    /\ IdleDetect /\ IdleAlerts /\ IdleStore

\* entry of the call up to the loop: the short-history return, or the
\* scan range
BacktestEnter ==
    /\ pc = "call"
    /\ IF Len(df) < MIN_BARS_BACKTEST
       THEN /\ result' = empty(symbol, combo)
            /\ pc' = "done"
            /\ UNCHANGED <<i, skip_until, trades>>
       ELSE /\ i' = start_idx(df, lookback_days)
            /\ skip_until' = 0
            /\ trades' = <<>>
            /\ pc' = "scan"
            /\ UNCHANGED result
    /\ UNCHANGED <<df, symbol, combo, lookback_days>>
    /\ UNCHANGED <<pairVars, batchVars, entryVars, scoreVars,
                 fired, alertVars, storeVars>>

\* one iteration of  for i in range(start_idx, end_idx)
ScanBar ==
    /\ pc = "scan"
    /\ i < end_idx(df)
    /\ LET st == ScanStep(df, combo, i,
                   [skip_until |-> skip_until, trades |-> trades, raised |-> FALSE])
       IN  IF st.raised
           THEN /\ pc' = "raised"
                /\ result' = Raised
                /\ UNCHANGED <<i, skip_until, trades>>
           ELSE /\ pc' = "scan"
                /\ i' = i + 1
                /\ skip_until' = st.skip_until
                /\ trades' = st.trades
                /\ UNCHANGED result
    /\ UNCHANGED <<df, symbol, combo, lookback_days>>
    /\ UNCHANGED <<pairVars, batchVars, entryVars, scoreVars,
                 fired, alertVars, storeVars>>

\* the loop is exhausted: aggregate and return
BacktestReturn ==
    /\ pc = "scan"
    /\ i >= end_idx(df)
    /\ result' = Aggregate(symbol, combo, trades)
    /\ pc' = "done"
    /\ UNCHANGED <<df, symbol, combo, lookback_days, i, skip_until, trades>>
    /\ UNCHANGED <<pairVars, batchVars, entryVars, scoreVars,
                 fired, alertVars, storeVars>>

Next == BacktestEnter \/ ScanBar \/ BacktestReturn

Spec == Init /\ [][Next]_vars

----------------------------------------------------------------------------
(* Claims about one call of backtest_combo (Spec) *)

Fires(k) == k >= 0 /\ k < Len(df) /\ detect_combo_signal(Window(df, k), combo)

\* C1: any two recorded trades have entry indices at least 5 bars apart,
\* also when the detection predicate fires on consecutive bars.
C1_NonOverlap ==
    /\ \A p, q \in 1..Len(trades) :
          p < q => trades[q].entry_date - trades[p].entry_date >= 5
    /\ \A p, q \in 1..Len(result.trades) :
          p < q => result.trades[q].entry_date - result.trades[p].entry_date >= 5

\* two trades exactly 5 bars apart with the predicate firing on every bar
\* in between
C1_Witness ==
    /\ pc = "done"
    /\ \E p \in 1..(Len(result.trades) - 1) :
          /\ result.trades[p + 1].entry_date = result.trades[p].entry_date + 5
          /\ \A k \in result.trades[p].entry_date..result.trades[p + 1].entry_date :
                Fires(k)

\* C3: every recorded trade has entry index i with
\* max(50, len - 20 - lookback) <= i and i + 20 <= len - 1, so the three
\* forward indices are i + 5, i + 10, i + 20 unclipped.
C3_FullForwardWindow ==
    \A p \in 1..Len(trades) :
        LET k == trades[p].entry_date
            lo == IF Len(df) - 20 - lookback_days > 50
                  THEN Len(df) - 20 - lookback_days ELSE 50
        IN  /\ lo <= k
            /\ k + 20 <= Len(df) - 1
            /\ \A ahead \in {5, 10, 20} :
                  Min2(k + ahead, Len(df) - 1) = k + ahead

\* a trade on the last scanned bar, whose 20-bar window ends on the last bar
C3_Witness ==
    /\ pc = "done"
    /\ \E p \in 1..Len(result.trades) :
          result.trades[p].entry_date + 20 = Len(df) - 1

\* C4: a history of at most 70 bars yields the zero-valued result and never
\* raises, whatever the detection predicate says.
C4_ShortHistoryEmpty ==
    Len(df) <= 70 =>
        /\ pc # "raised"
        /\ trades = <<>>
        /\ pc = "done" =>
              /\ result.combo = combo /\ result.symbol = symbol
              /\ result.total_signals = 0
              /\ result.win_rate_5d = 0 /\ result.win_rate_10d = 0
              /\ result.win_rate_20d = 0
              /\ result.avg_return_5d = 0 /\ result.avg_return_10d = 0
              /\ result.avg_return_20d = 0
              /\ result.trades = <<>>

\* a returned call on exactly 70 bars whose bar 50 satisfies the predicate
C4_Witness ==
    /\ Len(df) = 70 /\ pc = "done" /\ result.total_signals = 0 /\ Fires(50)

\* a returned call on fewer than 70 bars whose last bars satisfy the predicate
C4_WitnessBelow ==
    /\ Len(df) = 69 /\ pc = "done" /\ result.total_signals = 0 /\ Fires(68)

\* the rounded value r (hundredths) is num / den to the nearest hundredth
Nearest(r, num, den) == Abs(r * den - num) * 2 <= den

\* C5: for Sell/Short every recorded return is the negated long return
\* (close[i+N] - entry) / entry * 100, for the other archetypes the long
\* return itself; entry 100 and close[i+5] 90 gives +10 for Sell/Short.
C5_ShortReturnsNegated ==
    \A p \in 1..Len(trades) :
        LET t == trades[p]
            e == At(df, t.entry_date).Close
            sign == IF combo = "Sell/Short" THEN 0 - 1 ELSE 1
            long(ahead) == (At(df, t.entry_date + ahead).Close - e) * 10000
        IN  /\ t.entry_price = e
            /\ Nearest(t.return_5d, sign * long(5), e)
            /\ Nearest(t.return_10d, sign * long(10), e)
            /\ Nearest(t.return_20d, sign * long(20), e)

\* a Sell/Short trade entered at 10.00 with close[i+5] = 9.00 and
\* return_5d = +10.00
C5_Witness ==
    /\ combo = "Sell/Short"
    /\ \E p \in 1..Len(trades) :
          /\ trades[p].entry_price = 1000
          /\ At(df, trades[p].entry_date + 5).Close = 900
          /\ trades[p].return_5d = 1000

\* C6: with at least one trade, win_rate_Nd is the share of trades whose
\* return_Nd is strictly positive (in percent, to one decimal) and
\* avg_return_Nd is the arithmetic mean of the return_Nd (to two decimals).
C6_Aggregates ==
    (pc = "done" /\ result.total_signals > 0) =>
        LET ts == result.trades
            n == Len(ts)
            wins(f) == Cardinality({p \in 1..n : ts[p][f] > 0})
            total(f) == SumSeq([p \in 1..n |-> ts[p][f]])
        IN  /\ n = Len(trades) /\ ts = trades
            /\ Nearest(result.win_rate_5d, wins("return_5d") * 1000, n)
            /\ Nearest(result.win_rate_10d, wins("return_10d") * 1000, n)
            /\ Nearest(result.win_rate_20d, wins("return_20d") * 1000, n)
            /\ Nearest(result.avg_return_5d, total("return_5d"), n)
            /\ Nearest(result.avg_return_10d, total("return_10d"), n)
            /\ Nearest(result.avg_return_20d, total("return_20d"), n)

\* a result whose trades all returned exactly 0 after 5 bars: no win counted
C6_Witness ==
    /\ pc = "done" /\ result.total_signals > 0
    /\ \A p \in 1..Len(result.trades) : result.trades[p].return_5d = 0
    /\ result.win_rate_5d = 0

----------------------------------------------------------------------------
(* SpecPair: backtest_combo called on two histories of equal length that   *)
(* agree up to a cut bar and differ after it                               *)

PairShape == "up"
PairAltShapes == {"down", "zero"}
\* a profile that lets the archetype fire
PairKind(c) == IF c = "Sell/Short" THEN "BearPat" ELSE "BullAll"
PairLen == MIN_BARS_BACKTEST + Span

\* h up to bar cut, then the bars of another history with the signalling
\* bars exchanged for neutral ones and conversely
Spliced(h, n, cut, shape, kind, J) ==
    [p \in 1..n |->
        IF p - 1 <= cut THEN h[p]
        ELSE HistoryRow(n, shape, kind, Offsets \ J, p - 1)]

InitPair ==
    /\ pc = "pair"
    /\ symbol = "SYM"
    /\ combo \in {Combos[p] : p \in 1..Len(Combos)}
    /\ lookback_days = DEFAULT_LOOKBACK
    /\ \E alt \in PairAltShapes, J \in SUBSET Offsets,
          cut \in (PairLen - FORWARD_BARS - Span)..(PairLen - FORWARD_BARS) :
          /\ df = History(PairLen, PairShape, PairKind(combo), J)
          /\ df_alt = Spliced(df, PairLen, cut, alt, PairKind(combo), J)
    /\ i = 0 /\ skip_until = 0 /\ trades = <<>> /\ result = NotReturned
    /\ trades_alt = <<>> /\ result_alt = NotReturned
    /\ IdleBatch /\ IdleEntry /\ IdleScore
    /\ IdleDetect /\ IdleAlerts /\ IdleStore

RunBase ==
    /\ pc = "pair"
    /\ result = NotReturned
    /\ LET r == run_backtest(df, symbol, combo, lookback_days)
       IN  result' = r.value /\ trades' = r.trades
    /\ UNCHANGED <<pc, df, symbol, combo, lookback_days, i, skip_until>>
    /\ UNCHANGED <<pairVars, batchVars, entryVars, scoreVars,
                 fired, alertVars, storeVars>>

RunAlt ==
    /\ pc = "pair"
    /\ result_alt = NotReturned
    /\ LET r == run_backtest(df_alt, symbol, combo, lookback_days)
       IN  result_alt' = r.value /\ trades_alt' = r.trades
    /\ UNCHANGED <<pc, df_alt>>
    /\ UNCHANGED <<btVars, batchVars, entryVars, scoreVars,
                 fired, alertVars, storeVars>>

NextPair == RunBase \/ RunAlt

SpecPair == InitPair /\ [][NextPair]_vars

BothRan == result # NotReturned /\ result_alt # NotReturned
\* the first position (1-based) where the two histories differ
FirstDiff ==
    LET diff == {p \in 1..Len(df) : df[p] # df_alt[p]}
    IN  IF diff = {} THEN Len(df) + 1 ELSE SetMin(diff)
TradeAt(ts, k) == {ts[p] : p \in {q \in 1..Len(ts) : ts[q].entry_date = k}}

\* C2: no look-ahead.  For two histories of equal length that agree on bars
\* 0..k, a trade is recorded at index k in one iff in the other, with the
\* same entry_price; later bars change only forward returns.
C2_NoLookAhead ==
    BothRan =>
        /\ Len(df) = Len(df_alt)
        /\ LET d == FirstDiff
           IN  \A k \in 0..(Len(df) - 1) :
                  k + 1 < d =>
                     /\ (TradeAt(trades, k) # {}) <=> (TradeAt(trades_alt, k) # {})
                     /\ {t.entry_price : t \in TradeAt(trades, k)}
                           = {t.entry_price : t \in TradeAt(trades_alt, k)}

\* both runs record a trade at the last bar the histories share, the next
\* bar differs, and the two trades differ in a forward return
C2_Witness ==
    /\ BothRan
    /\ LET k == FirstDiff - 2
       IN  /\ k >= 0 /\ k + 1 < Len(df)
           /\ TradeAt(trades, k) # {} /\ TradeAt(trades_alt, k) # {}
           /\ \E t \in TradeAt(trades, k), u \in TradeAt(trades_alt, k) :
                 t.return_5d # u.return_5d

----------------------------------------------------------------------------
(* backtester.backtest_batch *)

MaxBatch == 2       \* symbols in a batch

BatchSymbols == {"A", "B", "C"}

batch_keep_always(rs, r) == Append(rs, r)

\* if result['total_signals'] > 0: results.append(result)
batch_keep(rs, r) == IF r.total_signals > 0 THEN Append(rs, r) ELSE rs

\* the histories a batch is drawn from: no signal, signals, and a signal
\* on a bar whose close is 0
BatchHistories ==
    {History(n, shape, "BullAll", J) :
        n \in {MinLen, MIN_BARS_BACKTEST + Span},
        shape \in {"saw", "zero"},
        J \in {{}, Offsets, {2 - Span}}}

InitBatch ==
    /\ pc = "batch"
    /\ combo \in {"Mean Reversion", "Sell/Short"}
    /\ lookback_days = DEFAULT_LOOKBACK
    /\ \E m \in 0..MaxBatch :
          data \in {d \in [1..m -> BatchSymbols \X BatchHistories] :
                       \A p, q \in 1..m : p # q => d[p][1] # d[q][1]}
    /\ results = <<>>
    /\ i = 0
    /\ df = <<>> /\ symbol = "" /\ skip_until = 0 /\ trades = <<>>
    /\ result = NotReturned
    /\ IdlePair /\ IdleEntry /\ IdleScore
    /\ IdleDetect /\ IdleAlerts /\ IdleStore

\* one iteration of  for symbol, df in data.items(); an exception of
\* backtest_combo leaves backtest_batch
BatchSymbol ==
    /\ pc = "batch"
    /\ i < Len(data)
    /\ LET r == backtest_combo(data[i + 1][2], data[i + 1][1], combo, lookback_days)
       IN  /\ result' = r
           /\ IF r = Raised
              THEN pc' = "raised" /\ UNCHANGED <<i, results>>
              ELSE /\ pc' = "batch"
                   /\ i' = i + 1
                   /\ results' = batch_keep(results, r)
    /\ UNCHANGED <<data, df, symbol, combo, lookback_days, skip_until, trades>>
    /\ UNCHANGED <<pairVars, entryVars, scoreVars,
                 fired, alertVars, storeVars>>

\* return results
BatchReturn ==
    /\ pc = "batch"
    /\ i >= Len(data)
    /\ pc' = "done"
    /\ UNCHANGED <<btVars, pairVars, batchVars, entryVars, scoreVars,
                 fired, alertVars, storeVars>>

NextBatch == BatchSymbol \/ BatchReturn

SpecBatch == InitBatch /\ [][NextBatch]_vars

Standalone(p) == backtest_combo(data[p][2], data[p][1], combo, lookback_days)

RECURSIVE Survivors(_)
\* the standalone results with signals of data[1..m], in input order
Survivors(m) ==
    IF m = 0 THEN <<>>
    ELSE LET r == Standalone(m)
         IN  IF r.total_signals > 0 THEN Append(Survivors(m - 1), r)
             ELSE Survivors(m - 1)

\* C7: backtest_batch returns, in input order, exactly the standalone
\* results of the symbols whose backtest has total_signals > 0.
C7_BatchIsFilter ==
    /\ pc = "done" => results = Survivors(Len(data))
    /\ pc = "batch" => results = Survivors(i)

\* a returned batch of two symbols of which one has signals and one does not
C7_Witness ==
    /\ pc = "done" /\ Len(data) = 2 /\ Len(results) = 1
    /\ results[1].symbol = data[2][1]
    /\ results[1] = Standalone(2)
    /\ Standalone(1).total_signals = 0

\* C8: a symbol whose backtest raises is omitted and the batch still
\* returns the results of the others: the batch never aborts.
C8_FailureIsolated ==
    /\ pc # "raised"
    /\ pc = "done" =>
          \A p \in 1..Len(data) :
              (Standalone(p) # Raised /\ Standalone(p).total_signals > 0)
                 => \E q \in 1..Len(results) : results[q] = Standalone(p)

----------------------------------------------------------------------------
(* alerts: entry signal detection (Trend Following, bullish and bearish)   *)

ENTRY_EMA_PULLBACK_PCT == 2
ENTRY_ADX_MIN == 25
ENTRY_VOLUME_RATIO_PREFERRED == 15     \* 1.5, in tenths

\* float arithmetic: a NaN operand gives NaN
Sub(a, b) == IF notna(a) /\ notna(b) THEN a - b ELSE NaN
Add(a, b) == IF notna(a) /\ notna(b) THEN a + b ELSE NaN
Times(m, a) == IF notna(a) THEN m * a ELSE NaN
pymin_larger(a, b) == IF Gt(b, a) THEN b ELSE a

\* Python's min(a, b) and max(a, b) of two floats
pymin(a, b) == IF Lt(b, a) THEN b ELSE a
pymax(a, b) == IF Gt(b, a) THEN b ELSE a
\* round(x / d, ...) of a float that may be NaN
RoundNaN(x, d) == IF notna(x) THEN RoundDiv(x, d) ELSE NaN

_NO_SIGNAL ==
    [has_signal |-> FALSE, strategy |-> "", direction |-> "",
     strength |-> "None", conditions_met |-> <<>>, conditions_missing |-> <<>>,
     entry_price |-> 0, ema20 |-> 0, stop_loss |-> 0,
     target_1 |-> 0, target_2 |-> 0, risk_pct |-> 0, pullback_pct |-> 0]

\* conditions_met / conditions_missing after the five checks, in order;
\* each check is a pair <<holds, text when met, text when missing>>
Met(checks) == SelectSeq(checks, LAMBDA x : x[1])
Missing(checks) == SelectSeq(checks, LAMBDA x : ~ x[1])
Texts(checks, idx) == [p \in 1..Len(checks) |-> checks[p][idx]]

has_signal_count_only(ema_aligned, pullback_ok, met_count) == met_count >= 3

has_signal_of(ema_aligned, pullback_ok, met_count) ==
    ema_aligned /\ pullback_ok /\ met_count >= 3

strength_gt(met_count) ==
    IF met_count > 4 THEN "Strong"
    ELSE IF met_count >= 3 THEN "Moderate" ELSE "Weak"

strength_of(met_count) ==
    IF met_count >= 4 THEN "Strong"
    ELSE IF met_count >= 3 THEN "Moderate" ELSE "Weak"

\* the guard of both checkers: TRUE when the sentinel is returned
entry_guard_skip200(ema20, ema50, ema200) ==
    ~ notna(ema20) \/ ~ notna(ema50) \/ ema20 <= 0

entry_guard(ema20, ema50, ema200) ==
    ~ notna(ema20) \/ ~ notna(ema50) \/ ~ notna(ema200) \/ ema20 <= 0

\* close +/- rr * risk, the target at reward-to-risk rr
target_at_flat(close200, risk, sign, rr) ==
    Add(close200, Times(sign * 2, risk))

target_at(close200, risk, sign, rr) ==
    Add(close200, Times(sign * rr, risk))

\* stop, risk and targets, unrounded, in 1/200 of the price unit;
\* sign is 1 for the bullish and -1 for the bearish checker
entry_levels(row, sign) ==
    LET close == row.Close
        atr == row.ATR
        stop_atr ==
            IF notna(atr) /\ atr > 0
            THEN Sub(Times(200, close), Times(sign * 300, atr))
            ELSE Times(200 - sign * 6, close)
        stop_loss == IF sign = 1 THEN pymin(stop_atr, Times(200, row.Low))
                     ELSE pymax(stop_atr, Times(200, row.High))
        risk == IF sign = 1 THEN Sub(Times(200, close), stop_loss)
                ELSE Sub(stop_loss, Times(200, close))
    IN  [stop_loss |-> stop_loss,
         risk |-> risk,
         risk_pct |-> IF Gt(close, 0) THEN RoundNaN(Times(10000, risk), 200 * close)
                      ELSE 0,
         target_1 |-> target_at(Times(200, close), risk, sign, 2),
         target_2 |-> target_at(Times(200, close), risk, sign, 3)]

_check_trend_following_entry(row) ==
    LET close == row.Close
        low == row.Low
        high == row.High
        open_ == row.Open
        ema20 == row.EMA_20
        ema50 == row.EMA_50
        ema200 == row.EMA_200
    IN  IF entry_guard(ema20, ema50, ema200)
        THEN [_NO_SIGNAL EXCEPT !.strategy = "Trend Following"]
        ELSE
          LET ema_aligned == Gt(close, ema20) /\ ema20 > ema50 /\ ema50 > ema200
              \* 0 <= (close - ema20) / ema20 * 100 <= ENTRY_EMA_PULLBACK_PCT
              near_ema == /\ Ge(close, ema20)
                          /\ (close - ema20) * 100 <= ENTRY_EMA_PULLBACK_PCT * ema20
              ema_touched == Le(low, ema20) /\ Le(ema20, close)
              pullback_ok == near_ema \/ ema_touched
              is_green == Ge(close, open_)
              candle_range == Sub(high, low)
              \* body_pct > 40
              big_body == /\ Gt(candle_range, 0) /\ notna(close) /\ notna(open_)
                          /\ Abs(close - open_) * 100 > 40 * candle_range
              bull_patterns ==
                  {q[1] : q \in {x \in row.patterns : x[2] = "bullish"}}
              checks ==
                  << <<ema_aligned, "EMA aligned (20 > 50 > 200)", "EMA alignment">>,
                     <<pullback_ok,
                       IF ema_touched THEN "Pullback (bounced off EMA20)"
                       ELSE "Pullback", "Pullback to EMA20">>,
                     <<(is_green /\ big_body) \/ bull_patterns # {},
                       IF is_green /\ big_body THEN "Bullish candle"
                       ELSE "Bullish pattern", "Bullish candle confirmation">>,
                     <<notna(row.Volume_Ratio)
                          /\ row.Volume_Ratio >= ENTRY_VOLUME_RATIO_PREFERRED,
                       "Volume confirmed", "Volume">>,
                     <<notna(row.ADX) /\ row.ADX >= ENTRY_ADX_MIN,
                       "ADX strong", "ADX">> >>
              met_count == Len(Met(checks))
              lv == entry_levels(row, 1)
          IN  [has_signal |-> has_signal_of(ema_aligned, pullback_ok, met_count),
               strategy |-> "Trend Following",
               direction |-> "Bullish",
               strength |-> strength_of(met_count),
               conditions_met |-> Texts(Met(checks), 2),
               conditions_missing |-> Texts(Missing(checks), 3),
               entry_price |-> close,
               ema20 |-> ema20,
               stop_loss |-> RoundNaN(lv.stop_loss, 200),
               target_1 |-> RoundNaN(lv.target_1, 200),
               target_2 |-> RoundNaN(lv.target_2, 200),
               risk_pct |-> lv.risk_pct,
               pullback_pct |-> RoundNaN(Times(10000, Sub(close, ema20)), ema20)]

_check_bearish_trend_following_entry(row) ==
    LET close == row.Close
        low == row.Low
        high == row.High
        open_ == row.Open
        ema20 == row.EMA_20
        ema50 == row.EMA_50
        ema200 == row.EMA_200
    IN  IF entry_guard(ema20, ema50, ema200)
        THEN [_NO_SIGNAL EXCEPT !.strategy = "Trend Following",
                                !.direction = "Bearish"]
        ELSE
          LET ema_aligned == ema200 > ema50 /\ ema50 > ema20 /\ Gt(ema20, close)
              \* 0 <= (ema20 - close) / ema20 * 100 <= ENTRY_EMA_PULLBACK_PCT
              near_ema == /\ Le(close, ema20)
                          /\ (ema20 - close) * 100 <= ENTRY_EMA_PULLBACK_PCT * ema20
              ema_touched == Le(close, ema20) /\ Le(ema20, high)
              pullback_ok == near_ema \/ ema_touched
              is_red == Lt(close, open_)
              candle_range == Sub(high, low)
              big_body == /\ Gt(candle_range, 0) /\ notna(close) /\ notna(open_)
                          /\ Abs(close - open_) * 100 > 40 * candle_range
              bear_patterns ==
                  {q[1] : q \in {x \in row.patterns : x[2] = "bearish"}}
              checks ==
                  << <<ema_aligned, "EMA aligned (200 > 50 > 20 > price)",
                       "Bearish EMA alignment">>,
                     <<pullback_ok,
                       IF ema_touched THEN "Rally (rejected at EMA20)"
                       ELSE "Rally", "Rally to EMA20">>,
                     <<(is_red /\ big_body) \/ bear_patterns # {},
                       IF is_red /\ big_body THEN "Bearish candle"
                       ELSE "Bearish pattern", "Bearish candle confirmation">>,
                     <<notna(row.Volume_Ratio)
                          /\ row.Volume_Ratio >= ENTRY_VOLUME_RATIO_PREFERRED,
                       "Volume confirmed", "Volume">>,
                     <<notna(row.ADX) /\ row.ADX >= ENTRY_ADX_MIN,
                       "ADX strong", "ADX">> >>
              met_count == Len(Met(checks))
              lv == entry_levels(row, 0 - 1)
          IN  [has_signal |-> has_signal_of(ema_aligned, pullback_ok, met_count),
               strategy |-> "Trend Following",
               direction |-> "Bearish",
               strength |-> strength_of(met_count),
               conditions_met |-> Texts(Met(checks), 2),
               conditions_missing |-> Texts(Missing(checks), 3),
               entry_price |-> close,
               ema20 |-> ema20,
               stop_loss |-> RoundNaN(lv.stop_loss, 200),
               target_1 |-> RoundNaN(lv.target_1, 200),
               target_2 |-> RoundNaN(lv.target_2, 200),
               risk_pct |-> lv.risk_pct,
               pullback_pct |-> RoundNaN(Times(10000, Sub(ema20, close)), ema20)]

entries_of_unfiltered(st, b1, b2) ==
    IF st = "trend_following" THEN <<b1, b2>> ELSE <<>>

\* the list detect_entry_signal builds from the two checkers' results
entries_of(st, b1, b2) ==
    IF st = "trend_following"
    THEN (IF b1.has_signal THEN <<b1>> ELSE <<>>)
            \o (IF b2.has_signal THEN <<b2>> ELSE <<>>)
    ELSE <<>>

----------------------------------------------------------------------------
(* SpecEntry: one call of detect_entry_signal on a frame whose enriched     *)
(* final row is last                                                       *)

NotCalled == [_NO_SIGNAL EXCEPT !.strategy = "(not called)"]

\* EMA_50 and EMA_200 of the final row: warm-up, bullish stack, bearish
\* stack, crossed
EmaStacks == {<<NaN, NaN>>, <<990, NaN>>, <<990, 980>>, <<1030, 1040>>, <<990, 1040>>}

EntryRows ==
    {[Close |-> c, Open |-> IF up THEN c - dl ELSE c + dh,
      High |-> c + dh, Low |-> c - dl,
      EMA_20 |-> e20, EMA_50 |-> st[1], EMA_200 |-> st[2],
      ADX |-> adx, Volume_Ratio |-> vr, ATR |-> atr, patterns |-> pt] :
        c \in {970, 1000, 1015, 1040}, up \in BOOLEAN,
        dl \in {0, 40}, dh \in {0, 40},
        e20 \in {NaN, 0, 1010}, st \in EmaStacks,
        adx \in {NaN, 24, 25}, vr \in {NaN, 14, 15}, atr \in {NaN, 0, 5, 10},
        pt \in {{}, {<<"Hammer", "bullish">>}, {<<"Shooting Star", "bearish">>}}}
    \cup
    \* a final bar without a close: compute_all derives the EMAs, ADX and
    \* ATR from the close array (technical_indicators.py:13-17, 34, 51), so
    \* a NaN close gives NaN in each of them on that bar
    {[Close |-> NaN, Open |-> o, High |-> o, Low |-> o,
      EMA_20 |-> NaN, EMA_50 |-> NaN, EMA_200 |-> NaN,
      ADX |-> NaN, Volume_Ratio |-> vr, ATR |-> NaN, patterns |-> {}] :
        o \in {NaN, 1000}, vr \in {NaN, 15}}

InitEntry ==
    /\ pc = "entry"
    /\ last \in EntryRows
    /\ nbars \in {MIN_BARS_DETECT - 1, MIN_BARS_DETECT}
    /\ strategy \in {"trend_following", "mean_reversion"}
    \* frames the call rejects are drawn with one setting of the
    \* confirmation columns
    /\ (nbars < MIN_BARS_DETECT \/ strategy # "trend_following") =>
          /\ last.ADX = NaN /\ last.Volume_Ratio = NaN /\ last.ATR = NaN
          /\ last.patterns = {}
    /\ bull = NotCalled /\ bear = NotCalled /\ entries = <<>>
    /\ IdleBacktest /\ IdlePair /\ IdleBatch /\ IdleScore
    /\ IdleDetect /\ IdleAlerts /\ IdleStore

DetectEntrySignal ==
    /\ pc = "entry"
    /\ pc' = "done"
    /\ IF nbars < MIN_BARS_DETECT
       THEN entries' = <<>> /\ UNCHANGED <<bull, bear>>
       ELSE IF strategy = "trend_following"
       THEN /\ bull' = _check_trend_following_entry(last)
            /\ bear' = _check_bearish_trend_following_entry(last)
            /\ entries' = entries_of(strategy, bull', bear')
       ELSE entries' = entries_of(strategy, bull, bear) /\ UNCHANGED <<bull, bear>>
    /\ UNCHANGED <<strategy, nbars, last>>
    /\ UNCHANGED <<btVars, pairVars, batchVars, scoreVars,
                 fired, alertVars, storeVars>>

NextEntry == DetectEntrySignal

SpecEntry == InitEntry /\ [][NextEntry]_vars

\* the five conditions read off the final row, for the bullish (sign 1)
\* and the bearish (sign -1) checker
CondEma(sign) ==
    IF sign = 1
    THEN last.Close > last.EMA_20 /\ last.EMA_20 > last.EMA_50
            /\ last.EMA_50 > last.EMA_200
    ELSE last.EMA_200 > last.EMA_50 /\ last.EMA_50 > last.EMA_20
            /\ last.EMA_20 > last.Close
CondPullback(sign) ==
    IF sign = 1
    THEN \/ /\ last.Close >= last.EMA_20
            /\ (last.Close - last.EMA_20) * 100 <= 2 * last.EMA_20
         \/ last.Low <= last.EMA_20 /\ last.EMA_20 <= last.Close
    ELSE \/ /\ last.Close <= last.EMA_20
            /\ (last.EMA_20 - last.Close) * 100 <= 2 * last.EMA_20
         \/ last.Close <= last.EMA_20 /\ last.EMA_20 <= last.High
CondCandle(sign) ==
    LET body == Abs(last.Close - last.Open)
        rng == last.High - last.Low
        pol == IF sign = 1 THEN "bullish" ELSE "bearish"
    IN  \/ /\ IF sign = 1 THEN last.Close >= last.Open ELSE last.Close < last.Open
           /\ rng > 0 /\ body * 100 > 40 * rng
        \/ \E x \in last.patterns : x[2] = pol
CondVolume == last.Volume_Ratio # NaN /\ last.Volume_Ratio >= 15
CondAdx == last.ADX # NaN /\ last.ADX >= 25
CondCount(sign) ==
    Cardinality({n \in 1..5 :
        \/ n = 1 /\ CondEma(sign)
        \/ n = 2 /\ CondPullback(sign)
        \/ n = 3 /\ CondCandle(sign)
        \/ n = 4 /\ CondVolume
        \/ n = 5 /\ CondAdx})

Checked == pc = "done" /\ bull # NotCalled
GuardPasses ==
    last.EMA_20 # NaN /\ last.EMA_50 # NaN /\ last.EMA_200 # NaN /\ last.EMA_20 > 0

\* C9: in both checkers has_signal is true iff EMA alignment and pullback
\* both hold and at least 3 of the five conditions are met;
\* detect_entry_signal returns only results with has_signal true.
C9_SignalNeedsRequired ==
    /\ Checked =>
          /\ bull.has_signal <=>
                (GuardPasses /\ CondEma(1) /\ CondPullback(1) /\ CondCount(1) >= 3)
          /\ bear.has_signal <=>
                (GuardPasses /\ CondEma(0 - 1) /\ CondPullback(0 - 1)
                    /\ CondCount(0 - 1) >= 3)
          /\ GuardPasses =>
                /\ Len(bull.conditions_met) = CondCount(1)
                /\ Len(bear.conditions_met) = CondCount(0 - 1)
    /\ pc = "done" =>
          /\ \A p \in 1..Len(entries) : entries[p].has_signal
          /\ \A p \in 1..Len(entries) : entries[p] \in {bull, bear}

\* three confirmations and the EMA alignment hold but the pullback does
\* not: four conditions met, no signal, nothing returned
C9_Witness ==
    /\ Checked /\ CondEma(1) /\ ~ CondPullback(1) /\ CondCount(1) = 4
    /\ ~ bull.has_signal /\ entries = <<>>

StopCandidate(sign) ==
    IF last.ATR # NaN /\ last.ATR > 0
    THEN 200 * last.Close - sign * 300 * last.ATR
    ELSE (200 - sign * 6) * last.Close

\* C11: for every result that passed the guard the stop is the tighter of
\* the two candidates: the higher of the ATR candidate and the low for the
\* bullish checker, the lower of the ATR candidate and the high for the
\* bearish checker, so never beyond the bar's extreme; the ATR candidate is
\* the 3% offset when ATR is NaN or not positive.
C11_TighterStop ==
    (Checked /\ GuardPasses) =>
        /\ Nearest(bull.stop_loss, Max2(StopCandidate(1), 200 * last.Low), 200)
        /\ Nearest(bear.stop_loss, Min2(StopCandidate(0 - 1), 200 * last.High), 200)
        /\ bull.stop_loss >= last.Low
        /\ bear.stop_loss <= last.High

\* the stop the checkers compute: the lower of the two candidates for the
\* bullish checker, the higher for the bearish one
StopTaken(sign) ==
    IF sign = 1 THEN Min2(StopCandidate(1), 200 * last.Low)
    ELSE Max2(StopCandidate(0 - 1), 200 * last.High)
RiskTaken(sign) == Abs(200 * last.Close - StopTaken(sign))

\* C12: for every result that is not the sentinel, risk = |entry - stop|,
\* target_1 = entry + 2 * risk and target_2 = entry + 3 * risk for the
\* bullish checker, entry - 2 * risk and entry - 3 * risk for the bearish
\* one (each returned level rounded to 2 decimals), and risk_pct is the
\* risk as a percentage of the entry.
C12_Targets ==
    (Checked /\ GuardPasses) =>
        /\ bull.entry_price = last.Close /\ bear.entry_price = last.Close
        /\ Nearest(bull.stop_loss, StopTaken(1), 200)
        /\ Nearest(bear.stop_loss, StopTaken(0 - 1), 200)
        /\ Nearest(bull.target_1, 200 * last.Close + 2 * RiskTaken(1), 200)
        /\ Nearest(bull.target_2, 200 * last.Close + 3 * RiskTaken(1), 200)
        /\ Nearest(bear.target_1, 200 * last.Close - 2 * RiskTaken(0 - 1), 200)
        /\ Nearest(bear.target_2, 200 * last.Close - 3 * RiskTaken(0 - 1), 200)
        /\ Nearest(bull.risk_pct, 10000 * RiskTaken(1), 200 * last.Close)
        /\ Nearest(bear.risk_pct, 10000 * RiskTaken(0 - 1), 200 * last.Close)
        \* the two targets and the stop are collinear with the entry
        /\ 3 * (bull.target_1 - bull.entry_price)
              - 2 * (bull.target_2 - bull.entry_price) \in (0 - 2)..2
        /\ 3 * (bear.entry_price - bear.target_1)
              - 2 * (bear.entry_price - bear.target_2) \in (0 - 2)..2

\* a returned bullish signal on a bar whose ATR stop falls on a half cent:
\* close 10.15, ATR 0.05, low 10.15, stop 10.075, risk 0.075
C12_Witness ==
    /\ Checked /\ GuardPasses /\ entries = <<bull>>
    /\ last.Close = 1015 /\ last.ATR = 5 /\ last.Low = 1015
    /\ RiskTaken(1) = 1500 /\ bull.target_1 = 1030
    /\ bull.target_2 \in {1037, 1038}

C13_WitnessNoClose ==
    Checked /\ last.Close = NaN /\ ~ bull.has_signal /\ ~ bear.has_signal

----------------------------------------------------------------------------
(* alerts: score_stock and recommend_combo                                 *)

\* one scored criterion appended to the running result
Credit(st, side, pts, name) ==
    [bullish |-> st.bullish + (IF side = "bullish" THEN pts ELSE 0),
     bearish |-> st.bearish + (IF side = "bearish" THEN pts ELSE 0),
     criteria |-> Append(st.criteria, [criterion |-> name, signal |-> side])]

\* if bull_cond: ... elif bear_cond: ...
Step(st, bull_cond, bear_cond, pts, bull_name, bear_name) ==
    IF bull_cond THEN Credit(st, "bullish", pts, bull_name)
    ELSE IF bear_cond THEN Credit(st, "bearish", pts, bear_name)
    ELSE st

volume_side_ge(bullish, bearish) ==
    IF bullish >= bearish THEN "bullish" ELSE "bearish"

\* the side a high volume ratio is credited to
volume_side(bullish, bearish) ==
    IF bullish > bearish THEN "bullish"
    ELSE IF bearish > bullish THEN "bearish" ELSE "none"

candle_points_less2(n) == n - 2

\* min(len(patterns), 2)
candle_points(n) == Min2(n, 2)

\* close_pct and body_pct are fractions, kept as <<numerator, denominator>>
_analyze_candle_close(row) ==
    LET o == row.Open
        h == row.High
        l == row.Low
        c == row.Close
        candle_range == Sub(h, l)
    IN  IF Le(candle_range, 0)
        THEN [close_pct |-> <<1, 2>>, body_pct |-> <<0, 1>>, is_green |-> Ge(c, o)]
        ELSE [close_pct |-> <<Sub(c, l), candle_range>>,
              body_pct |-> <<IF notna(c) /\ notna(o) THEN Abs(c - o) ELSE NaN,
                             candle_range>>,
              is_green |-> Ge(c, o)]

\* w holds the last bars of the frame; the criteria's detail strings are
\* left out
score_stock(w) ==
    LET signals == generate_signals(w)
        row == w[Len(w)]
        s0 == [bullish |-> 0, bearish |-> 0, criteria |-> <<>>]
        s1 == Step(s0, Lt(row.RSI, 30), Gt(row.RSI, 70), 1,
                   "RSI Oversold", "RSI Overbought")
        s2 == Step(s1, In("Bullish", signals.MACD), In("Bearish", signals.MACD),
                   1, "MACD", "MACD")
        s3 == Step(s2, In("Bullish", signals.EMA_Trend),
                   In("Bearish", signals.EMA_Trend), 1, "EMA Trend", "EMA Trend")
        s4 == Step(s3, In("Lower", signals.BB), In("Upper", signals.BB), 1,
                   "Bollinger Band", "Bollinger Band")
        s5 == Step(s4, In("Strong Bullish", signals.ADX),
                   In("Strong Bearish", signals.ADX), 1, "ADX", "ADX")
        side == volume_side(s5.bullish, s5.bearish)
        s6 == IF In("High", signals.Volume) /\ side # "none"
              THEN Credit(s5, side, 1, "Volume Confirmation") ELSE s5
        breakout == is_breaking_out(w)
        breakdown == is_breaking_down(w)
        s7 == Step(s6, breakout, breakdown, 2, "Breakout", "Breakdown")
        patterns == row.patterns
        bull_patterns == {q[1] : q \in {x \in patterns : x[2] = "bullish"}}
        bear_patterns == {q[1] : q \in {x \in patterns : x[2] = "bearish"}}
        s8 == IF bull_patterns # {}
              THEN Credit(s7, "bullish", candle_points(Cardinality(bull_patterns)),
                          "Candlestick")
              ELSE s7
        s9 == IF bear_patterns # {}
              THEN Credit(s8, "bearish", candle_points(Cardinality(bear_patterns)),
                          "Candlestick")
              ELSE s8
        close_info == _analyze_candle_close(row)
    IN  [bullish_score |-> s9.bullish,
         bearish_score |-> s9.bearish,
         criteria |-> s9.criteria,
         patterns |-> patterns,
         signals |-> signals,
         is_breakout |-> breakout,
         is_breakdown |-> breakdown,
         close_pct |-> close_info.close_pct,
         body_pct |-> close_info.body_pct,
         is_green |-> close_info.is_green]

\* the reasons of the checks that hold, in order; each check is
\* <<holds, points, reason>>
Reasons(checks) == Texts(Met(checks), 3)
Points(checks) == SumSeq([p \in 1..Len(checks) |->
                            IF checks[p][1] THEN checks[p][2] ELSE 0])

best_of_last(scores) ==
    LET top == SetMax({scores[c] : c \in DOMAIN scores})
        at == {p \in 1..Len(Combos) : scores[Combos[p]] = top}
    IN  Combos[SetMax(at)]

\* max(scores, key=scores.get): the first key, in insertion order, that
\* holds the largest score
best_of(scores) ==
    LET top == SetMax({scores[c] : c \in DOMAIN scores})
        at == {p \in 1..Len(Combos) : scores[Combos[p]] = top}
    IN  Combos[SetMin(at)]

no_setup_le(best_score) == best_score <= 2

no_setup(best_score) == best_score < 2

\* reasons[best][:3]
FirstThree(q) == SubSeq(q, 1, Min2(3, Len(q)))

\* criteria is not read by the function; reason is kept as the list of
\* the joined parts
recommend_combo(criteria, signals, patterns, is_breakout, is_breakdown) ==
    LET bull_patterns == {q[1] : q \in {x \in patterns : x[2] = "bullish"}}
        bear_patterns == {q[1] : q \in {x \in patterns : x[2] = "bearish"}}
        has_reversal == \E q \in bull_patterns : q \in REVERSAL_PATTERNS
        checks ==
            [c \in {Combos[p] : p \in 1..Len(Combos)} |->
               CASE c = "Trend Following" ->
                      << <<In("Bullish", signals.EMA_Trend), 1, "EMA aligned">>,
                         <<In("Strong Bullish", signals.ADX), 1, "ADX strong">>,
                         <<In("High", signals.Volume), 1, "Volume confirms">>,
                         <<bull_patterns # {}, 1, "Bullish pattern">> >>
                 [] c = "Mean Reversion" ->
                      << <<In("Oversold", signals.RSI), 1, "RSI oversold">>,
                         <<In("Lower", signals.BB), 1, "Near lower BB">>,
                         <<has_reversal, 1, "Reversal pattern">>,
                         <<In("Oversold", signals.RSI) /\ In("Lower", signals.BB),
                           1, "Support zone">> >>
                 [] c = "Breakout" ->
                      << <<is_breakout, 2, "Breaking consolidation">>,
                         <<In("High", signals.Volume), 1, "High volume">>,
                         <<In("Bullish", signals.MACD), 1, "MACD bullish">>,
                         <<~ In("Weak", signals.ADX) /\ signals.ADX # "",
                           1, "ADX confirming">> >>
                 [] OTHER ->
                      << <<In("Overbought", signals.RSI), 1, "RSI overbought">>,
                         <<In("Upper", signals.BB), 1, "Near upper BB">>,
                         <<bear_patterns # {}, 1, "Bearish pattern">>,
                         <<In("Bearish", signals.EMA_Trend), 1, "EMA bearish">> >>]
        scores == [c \in DOMAIN checks |-> Points(checks[c])]
        best == best_of(scores)
        best_score == scores[best]
    IN  IF no_setup(best_score)
        THEN [combo |-> "No clear setup", match_score |-> best_score,
              reason |-> <<"Insufficient confluence">>]
        ELSE [combo |-> best, match_score |-> best_score,
              reason |-> FirstThree(Reasons(checks[best]))]

----------------------------------------------------------------------------
(* SpecScore: score_stock on one frame, then recommend_combo on its result *)
(* (pages/page_alerts.py:153-162).  frame holds the last TailLen bars of   *)
(* the frame, which is all score_stock reads; the indicator columns of its *)
(* last two rows are those of the whole frame of frame_len bars.           *)

TailLen == CONSOLIDATION_LOOKBACK + 2
\* frame lengths: too short for the breakout test, EMA_50 / MACD / EMA_200
\* still in warm-up, and every indicator available
ScoreLens == {CONSOLIDATION_LOOKBACK + 1, 30, 250}

MacdOf(opt) ==
    CASE opt = "cross_up"   -> [now |-> <<5, 3>>, prev |-> <<2, 3>>]
      [] opt = "cross_down" -> [now |-> <<0 - 5, 0 - 3>>, prev |-> <<0 - 2, 0 - 3>>]
      [] OTHER              -> [now |-> <<0, 0>>, prev |-> <<0, 0>>]

\* EMA_20, EMA_50, EMA_200 around the close c
EmaOf(opt, c) ==
    CASE opt = "strong_bull" -> <<c - 10, c - 20, c - 30>>
      [] opt = "strong_bear" -> <<c + 10, c + 20, c + 30>>
      [] opt = "above_200"   -> <<c + 10, c - 20, c - 30>>
      [] opt = "below_200"   -> <<c - 10, c + 20, c + 30>>
      [] OTHER               -> <<c + 10, c + 20, c>>

\* BB_Lower, BB_Upper around the close c
BandOf(opt, c) ==
    CASE opt = "lower" -> <<c - 5, c + 95>>
      [] opt = "upper" -> <<c - 95, c + 5>>
      [] opt = "flat"  -> <<c, c>>
      [] OTHER         -> <<c - 50, c + 50>>

\* ADX, Plus_DI, Minus_DI
AdxOf(opt) ==
    CASE opt = "strong_bull" -> <<30, 30, 10>>
      [] opt = "strong_bear" -> <<30, 10, 30>>
      [] OTHER               -> <<25, 20, 20>>

PatternSets ==
    {{},
     {<<"Hammer", "bullish">>},
     {<<"Shooting Star", "bearish">>},
     {<<"Doji", "bullish">>, <<"Harami Cross Pattern", "bearish">>},
     {<<"Hammer", "bullish">>, <<"Doji", "bullish">>,
      <<"Dragonfly Doji", "bullish">>}}

ScoreSels ==
    [rsi : {25, 50, 75}, macd : {"cross_up", "cross_down", "equal"},
     ema : {"strong_bull", "strong_bear", "above_200", "below_200", "mixed"},
     bb : {"lower", "upper", "flat", "mid"},
     adx : {"strong_bull", "strong_bear", "weak"},
     vol : {15, 16}, pat : PatternSets]

\* the selections drawn for the frames still in warm-up
WarmupSels ==
    {x \in ScoreSels :
        /\ x.macd = "cross_up" /\ x.ema = "strong_bull" /\ x.bb = "lower"
        /\ x.vol = 16 /\ x.pat # {}}

\* the close of bar k before the final bar
PriorClose(prior, k) ==
    CASE prior = "flat"  -> 1000
      [] prior = "drift" -> 1000 + 5 * (k % 3)
      [] OTHER           -> IF k % 2 = 0 THEN 1000 ELSE 900

\* the final bars of a frame of n bars whose final close is c
ScoreFrame(n, prior, c, x) ==
    LET m == Min2(n, TailLen)
        e == EmaOf(x.ema, c)
        b == BandOf(x.bb, c)
        a == AdxOf(x.adx)
    IN  [p \in 1..m |->
           IF p = m
           THEN [Close |-> c, Open |-> c - 5, High |-> c + 5, Low |-> c - 10,
                 RSI |-> Warm(n - 1, RSI_PERIOD + 1, x.rsi),
                 MACD |-> Warm(n - 1, MACD_SLOW + MACD_SIGNAL - 1,
                               MacdOf(x.macd).now[1]),
                 MACD_Signal |-> Warm(n - 1, MACD_SLOW + MACD_SIGNAL - 1,
                                      MacdOf(x.macd).now[2]),
                 EMA_20 |-> Warm(n - 1, 20, e[1]),
                 EMA_50 |-> Warm(n - 1, 50, e[2]),
                 EMA_200 |-> Warm(n - 1, 200, e[3]),
                 BB_Lower |-> Warm(n - 1, BB_PERIOD, b[1]),
                 BB_Upper |-> Warm(n - 1, BB_PERIOD, b[2]),
                 ADX |-> Warm(n - 1, 2 * ADX_PERIOD, a[1]),
                 Plus_DI |-> Warm(n - 1, ADX_PERIOD + 1, a[2]),
                 Minus_DI |-> Warm(n - 1, ADX_PERIOD + 1, a[3]),
                 Volume_Ratio |-> Warm(n - 1, 20, x.vol),
                 patterns |-> x.pat]
           ELSE IF p = m - 1
           THEN [Close |-> PriorClose(prior, n - 2),
                 MACD |-> Warm(n - 2, MACD_SLOW + MACD_SIGNAL - 1,
                               MacdOf(x.macd).prev[1]),
                 MACD_Signal |-> Warm(n - 2, MACD_SLOW + MACD_SIGNAL - 1,
                                      MacdOf(x.macd).prev[2])]
           ELSE [Close |-> PriorClose(prior, n - m + p - 1)]]

\* a series of identical bars: the final bars of n bars that all open,
\* peak, bottom and close at c, with the indicator values of a constant
\* series (RSI at rsi, MACD on its signal line, every average and both
\* bands at c, no directional movement, average volume, no pattern)
FlatLen == 100
FlatFrame(n, c, rsi) ==
    LET m == Min2(n, TailLen)
    IN  [p \in 1..m |->
           IF p = m
           THEN [Close |-> c, Open |-> c, High |-> c, Low |-> c,
                 RSI |-> Warm(n - 1, RSI_PERIOD + 1, rsi),
                 MACD |-> Warm(n - 1, MACD_SLOW + MACD_SIGNAL - 1, 0),
                 MACD_Signal |-> Warm(n - 1, MACD_SLOW + MACD_SIGNAL - 1, 0),
                 EMA_20 |-> Warm(n - 1, 20, c),
                 EMA_50 |-> Warm(n - 1, 50, c),
                 EMA_200 |-> Warm(n - 1, 200, c),
                 BB_Lower |-> Warm(n - 1, BB_PERIOD, c),
                 BB_Upper |-> Warm(n - 1, BB_PERIOD, c),
                 ADX |-> Warm(n - 1, 2 * ADX_PERIOD, 0),
                 Plus_DI |-> Warm(n - 1, ADX_PERIOD + 1, 0),
                 Minus_DI |-> Warm(n - 1, ADX_PERIOD + 1, 0),
                 Volume_Ratio |-> Warm(n - 1, 20, 10),
                 patterns |-> {}]
           ELSE IF p = m - 1
           THEN [Close |-> c,
                 MACD |-> Warm(n - 2, MACD_SLOW + MACD_SIGNAL - 1, 0),
                 MACD_Signal |-> Warm(n - 2, MACD_SLOW + MACD_SIGNAL - 1, 0)]
           ELSE [Close |-> c]]

InitScore ==
    /\ pc = "score"
    /\ \/ /\ frame_len \in ScoreLens
          /\ \E prior \in {"flat", "drift", "wide"}, c \in {990, 1005, 1015},
                x \in (IF frame_len < 200 THEN WarmupSels ELSE ScoreSels) :
                /\ prior = "wide" => c = 1015
                /\ frame = ScoreFrame(frame_len, prior, c, x)
       \/ /\ frame_len \in {FlatLen, 250}
          /\ \E c \in {1000, 5}, rsi \in {50, 0} :
                frame = FlatFrame(frame_len, c, rsi)
    /\ scored = NoRow /\ rec = NoRow
    /\ IdleBacktest /\ IdlePair /\ IdleBatch /\ IdleEntry
    /\ IdleDetect /\ IdleAlerts /\ IdleStore

ScoreStock ==
    /\ pc = "score"
    /\ scored' = score_stock(frame)
    /\ pc' = "scored"
    /\ UNCHANGED <<frame, frame_len, rec>>
    /\ UNCHANGED <<btVars, pairVars, batchVars, entryVars,
                 fired, alertVars, storeVars>>

RecommendCombo ==
    /\ pc = "scored"
    /\ rec' = recommend_combo(scored.criteria, scored.signals, scored.patterns,
                              scored.is_breakout, scored.is_breakdown)
    /\ pc' = "done"
    /\ UNCHANGED <<frame, frame_len, scored>>
    /\ UNCHANGED <<btVars, pairVars, batchVars, entryVars,
                 fired, alertVars, storeVars>>

NextScore == ScoreStock \/ RecommendCombo

SpecScore == InitScore /\ [][NextScore]_vars

----------------------------------------------------------------------------
(* properties of score_stock and recommend_combo                           *)

Scored == scored # NoRow
Recommended == rec # NoRow
FinalRow == frame[Len(frame)]
HasCrit(name, side) ==
    \E p \in 1..Len(scored.criteria) :
        scored.criteria[p].criterion = name /\ scored.criteria[p].signal = side
CritCount(names, side) ==
    Cardinality({p \in 1..Len(scored.criteria) :
        /\ scored.criteria[p].criterion \in names
        /\ scored.criteria[p].signal = side})
PatternCount(side) == Cardinality({x \in scored.patterns : x[2] = side})

\* the four archetype checklist scores, read off the scored signals
B(cond) == IF cond THEN 1 ELSE 0
ChecklistScore(c) ==
    LET g == scored.signals
    IN  CASE c = "Trend Following" ->
               B(In("Bullish", g.EMA_Trend)) + B(In("Strong Bullish", g.ADX))
                 + B(In("High", g.Volume)) + B(PatternCount("bullish") > 0)
          [] c = "Mean Reversion" ->
               B(In("Oversold", g.RSI)) + B(In("Lower", g.BB))
                 + B(\E x \in scored.patterns :
                        x[2] = "bullish" /\ x[1] \in REVERSAL_PATTERNS)
                 + B(In("Oversold", g.RSI) /\ In("Lower", g.BB))
          [] c = "Breakout" ->
               2 * B(scored.is_breakout) + B(In("High", g.Volume))
                 + B(In("Bullish", g.MACD))
                 + B(g.ADX # "" /\ ~ In("Weak", g.ADX))
          [] OTHER ->
               B(In("Overbought", g.RSI)) + B(In("Upper", g.BB))
                 + B(PatternCount("bearish") > 0) + B(In("Bearish", g.EMA_Trend))
TopScore == SetMax({ChecklistScore(Combos[p]) : p \in 1..Len(Combos)})
ComboIndex(c) == CHOOSE p \in 1..Len(Combos) : Combos[p] = c

\* C15: the combo is 'No clear setup' iff the largest of the four checklist
\* scores is below 2, whatever the bullish and bearish scores are;
\* otherwise it is an archetype holding the largest score; match_score is
\* always the largest score.
C15_NoClearSetup ==
    Recommended =>
        /\ rec.combo = "No clear setup" <=> TopScore < 2
        /\ TopScore >= 2 =>
              /\ rec.combo \in {Combos[p] : p \in 1..Len(Combos)}
              /\ ChecklistScore(rec.combo) = TopScore
        /\ rec.match_score = TopScore

\* a bearish score of 5 with no archetype reaching 2
C15_Witness ==
    /\ Recommended /\ rec.combo = "No clear setup" /\ rec.match_score = 1
    /\ scored.bearish_score >= 5 /\ scored.bullish_score = 0

\* C16: when several archetypes share the largest score and it is at least
\* 2, the one first in the order Trend Following, Mean Reversion, Breakout,
\* Sell/Short is selected.
C16_TieOrder ==
    (Recommended /\ TopScore >= 2) =>
        \A p \in 1..Len(Combos) :
            ChecklistScore(Combos[p]) = TopScore => ComboIndex(rec.combo) <= p

\* Mean Reversion, Breakout and Sell/Short tie at 2 above Trend Following
C16_Witness ==
    /\ Recommended /\ TopScore = 2 /\ rec.combo = "Mean Reversion"
    /\ ChecklistScore("Trend Following") < 2
    /\ ChecklistScore("Breakout") = 2 /\ ChecklistScore("Sell/Short") = 2

FirstFive == {"RSI Oversold", "RSI Overbought", "MACD", "EMA Trend",
              "Bollinger Band", "ADX"}
HighVolume == FinalRow.Volume_Ratio # NaN /\ FinalRow.Volume_Ratio > 15
\* the points a criterion of the list stands for
PointsOf(cr) ==
    CASE cr.criterion \in {"Breakout", "Breakdown"} -> 2
      [] cr.criterion = "Candlestick" -> Min2(PatternCount(cr.signal), 2)
      [] OTHER -> 1
SidePoints(side) ==
    SumSeq([p \in 1..Len(scored.criteria) |->
              IF scored.criteria[p].signal = side
              THEN PointsOf(scored.criteria[p]) ELSE 0])

\* C17: a volume ratio above 1.5 adds exactly one point to the side whose
\* total over RSI, MACD, EMA, Bollinger and ADX is strictly larger, and
\* nothing when the two totals are equal; the breakout and candlestick
\* points do not influence the side.
C17_VolumeFollowsLeader ==
    Scored =>
        LET b5 == CritCount(FirstFive, "bullish")
            r5 == CritCount(FirstFive, "bearish")
            vb == CritCount({"Volume Confirmation"}, "bullish")
            vr == CritCount({"Volume Confirmation"}, "bearish")
        IN  /\ (HighVolume /\ b5 > r5) => (vb = 1 /\ vr = 0)
            /\ (HighVolume /\ r5 > b5) => (vb = 0 /\ vr = 1)
            /\ (HighVolume /\ b5 = r5) => (vb = 0 /\ vr = 0)
            /\ ~ HighVolume => (vb = 0 /\ vr = 0)
            /\ scored.bullish_score = SidePoints("bullish")
            /\ scored.bearish_score = SidePoints("bearish")

\* the five criteria tie at 1 : 1, the volume is high, and a breakout and
\* three bullish patterns follow: no volume point, bullish 1 + 2 + 2
C17_Witness ==
    /\ Scored /\ HighVolume
    /\ CritCount(FirstFive, "bullish") = 1 /\ CritCount(FirstFive, "bearish") = 1
    /\ scored.is_breakout /\ PatternCount("bullish") = 3
    /\ scored.bullish_score = 5 /\ scored.bearish_score = 1
    /\ ~ HasCrit("Volume Confirmation", "bullish")

\* C18: the EMA point goes to the bullish side only when
\* close > EMA20 > EMA50 > EMA200 holds strictly, to the bearish side only
\* when close < EMA20 < EMA50 < EMA200 holds strictly, and to neither side
\* for every other arrangement.
C18_StrictEmaPoint ==
    Scored =>
        LET r == FinalRow
            known == r.EMA_20 # NaN /\ r.EMA_50 # NaN /\ r.EMA_200 # NaN
        IN  /\ HasCrit("EMA Trend", "bullish") <=>
                  (known /\ r.Close > r.EMA_20 /\ r.EMA_20 > r.EMA_50
                     /\ r.EMA_50 > r.EMA_200)
            /\ HasCrit("EMA Trend", "bearish") <=>
                  (known /\ r.Close < r.EMA_20 /\ r.EMA_20 < r.EMA_50
                     /\ r.EMA_50 < r.EMA_200)

\* C19: is_breaking_out and is_breaking_down are never both true of one
\* frame, so no result has is_breakout and is_breakdown both set and the
\* breakout weight of 2 goes to at most one side.
C19_BreakoutExclusive ==
    Scored =>
        /\ ~ (is_breaking_out(frame) /\ is_breaking_down(frame))
        /\ ~ (scored.is_breakout /\ scored.is_breakdown)
        /\ ~ (HasCrit("Breakout", "bullish") /\ HasCrit("Breakdown", "bearish"))
        /\ scored.is_breakout <=> HasCrit("Breakout", "bullish")
        /\ scored.is_breakdown <=> HasCrit("Breakdown", "bearish")

\* a close below a 15-bar range that drifted within 2.5%: breakdown only
C19_Witness ==
    /\ Scored /\ scored.is_breakdown /\ ~ scored.is_breakout
    /\ FinalRow.Close = 990
    /\ frame[Len(frame) - 1].Close # frame[Len(frame) - 2].Close
    /\ HasCrit("Breakdown", "bearish") /\ scored.bearish_score >= 2

\* C20 as stated: both scores are non-negative integers and no two entries
\* of the criteria list have the same criterion name and opposite signals.
C20_NoBothPolarities ==
    Scored =>
        /\ scored.bullish_score \in Nat /\ scored.bearish_score \in Nat
        /\ \A p, q \in 1..Len(scored.criteria) :
              scored.criteria[p].criterion = scored.criteria[q].criterion
                 => scored.criteria[p].signal = scored.criteria[q].signal

\* C20 amended: both scores are non-negative integers; no criterion name
\* other than Candlestick occurs twice in the list; Candlestick occurs once
\* per polarity present among the final bar's patterns, so with both
\* signals exactly when that bar carries a bullish and a bearish pattern.
C20_Polarity ==
    Scored =>
        /\ scored.bullish_score \in Nat /\ scored.bearish_score \in Nat
        /\ \A p, q \in 1..Len(scored.criteria) :
              (p # q /\ scored.criteria[p].criterion = scored.criteria[q].criterion)
                 => /\ scored.criteria[p].criterion = "Candlestick"
                    /\ scored.criteria[p].signal # scored.criteria[q].signal
        /\ HasCrit("Candlestick", "bullish") <=> PatternCount("bullish") > 0
        /\ HasCrit("Candlestick", "bearish") <=> PatternCount("bearish") > 0

\* a Doji inside a Harami Cross: Candlestick is listed bullish and bearish
C20_Witness ==
    /\ Scored /\ PatternCount("bullish") = 1 /\ PatternCount("bearish") = 1
    /\ HasCrit("Candlestick", "bullish") /\ HasCrit("Candlestick", "bearish")
    /\ scored.bullish_score >= 1 /\ scored.bearish_score >= 1

----------------------------------------------------------------------------
(* SpecAlerts: one call of generate_alerts (screener/alerts.py), one       *)
(* iteration of its loop per step.  The 'RS %' column comes from           *)
(* compute_relative_strength and the 'Pattern' column is a display string; *)
(* both are left out of the rows.                                          *)

MaxAlerts == 3      \* symbols given to generate_alerts

MIN_BARS_SCORE == 50
DEFAULT_MIN_SCORE == 3
AUTO_SAVE_MIN_SCORE == 5

direction_gt(bullish_score, bearish_score) ==
    IF bullish_score > bearish_score THEN "Bullish" ELSE "Bearish"

\* 'Bullish' if result['bullish_score'] >= result['bearish_score'] else 'Bearish'
direction_of(bullish_score, bearish_score) ==
    IF bullish_score >= bearish_score THEN "Bullish" ELSE "Bearish"

\* direction.lower()
lower(direction) == IF direction = "Bullish" THEN "bullish" ELSE "bearish"

\* f >= a / b  and  f <= a / b  for a fraction f = <<num, den>>, den > 0
FracGe(f, a, b) == notna(f[1]) /\ f[1] * b >= a * f[2]
FracLe(f, a, b) == notna(f[1]) /\ f[1] * b <= a * f[2]

\* [c['criterion'] for c in criteria if c['signal'] in (direction.lower(),
\* 'confirmation')][:5]
RECURSIVE top_criteria(_, _)
top_criteria(criteria, direction) ==
    IF criteria = <<>> THEN <<>>
    ELSE LET rest == top_criteria(Tail(criteria), direction)
         IN  IF Head(criteria).signal \in {lower(direction), "confirmation"}
             THEN <<Head(criteria).criterion>> \o rest
             ELSE rest
FirstFiveOf(q) == SubSeq(q, 1, Min2(5, Len(q)))

\* the negation of  if max_score < min_score: continue
keep_score(max_score, threshold) == max_score >= threshold

\* the row appended for a scored symbol
alert_row(sym, res) ==
    LET max_score == Max2(res.bullish_score, res.bearish_score)
        direction == direction_of(res.bullish_score, res.bearish_score)
        combo_rec == recommend_combo(res.criteria, res.signals, res.patterns,
                                     res.is_breakout, res.is_breakdown)
        clean == IF direction = "Bullish"
                 THEN FracGe(res.close_pct, 67, 100)
                      /\ FracGe(res.body_pct, 40, 100) /\ res.is_green
                 ELSE FracLe(res.close_pct, 33, 100)
                      /\ FracGe(res.body_pct, 40, 100) /\ ~res.is_green
    IN  [Symbol |-> sym,
         Direction |-> direction,
         Score |-> max_score,
         Bullish |-> res.bullish_score,
         Bearish |-> res.bearish_score,
         Close_pct |-> RoundDiv(res.close_pct[1] * 100, res.close_pct[2]),
         Clean |-> clean,
         Top_Criteria |-> FirstFiveOf(top_criteria(res.criteria, direction)),
         Combo |-> combo_rec.combo]

\* one iteration of the loop on the pair <<sym, bars, frame>>
alert_step(acc, sym, bars, w, threshold) ==
    IF bars < MIN_BARS_SCORE THEN acc
    ELSE LET res == score_stock(w)
         IN  IF keep_score(Max2(res.bullish_score, res.bearish_score), threshold)
             THEN Append(acc, alert_row(sym, res))
             ELSE acc

sort_values_none(q) == {q}

\* sort_values('Score', ascending=False): the default sort of pandas is
\* not stable, so rows of equal Score come in any order
sort_values(q) ==
    {s \in {[p \in 1..Len(q) |-> q[f[p]]] :
               f \in {g \in [1..Len(q) -> 1..Len(q)] :
                         \A a, b \in 1..Len(q) : a # b => g[a] # g[b]}} :
        \A p \in 1..(Len(s) - 1) : s[p].Score >= s[p + 1].Score}

\* value of df_alerts before the call returns
NoFrame == <<[Symbol |-> "(not returned)"]>>

AlertSel(kind) ==
    CASE kind = "bull" ->
           [rsi |-> 25, macd |-> "cross_up", ema |-> "strong_bull", bb |-> "lower",
            adx |-> "strong_bull", vol |-> 16, pat |-> {<<"Hammer", "bullish">>}]
      [] kind = "bear" ->
           [rsi |-> 75, macd |-> "cross_down", ema |-> "strong_bear", bb |-> "upper",
            adx |-> "strong_bear", vol |-> 16,
            pat |-> {<<"Shooting Star", "bearish">>}]
      [] kind = "tie" ->
           [rsi |-> 25, macd |-> "cross_down", ema |-> "strong_bull", bb |-> "upper",
            adx |-> "strong_bull", vol |-> 15,
            pat |-> {<<"Shooting Star", "bearish">>}]
      [] OTHER ->
           [rsi |-> 50, macd |-> "equal", ema |-> "mixed", bb |-> "mid",
            adx |-> "weak", vol |-> 15, pat |-> {}]

\* <<bars, frame>>: a frame too short to score, a breakout with every
\* bullish criterion, the same without the breakout, a breakdown with every
\* bearish criterion, equal scores, and a quiet frame
AlertFrames ==
    {<<30, ScoreFrame(30, "flat", 1005, AlertSel("bull"))>>,
     <<250, ScoreFrame(250, "flat", 1005, AlertSel("bull"))>>,
     <<250, ScoreFrame(250, "flat", 1000, AlertSel("bull"))>>,
     <<250, ScoreFrame(250, "flat", 990, AlertSel("bear"))>>,
     <<250, ScoreFrame(250, "flat", 1000, AlertSel("tie"))>>,
     <<250, ScoreFrame(250, "flat", 1000, AlertSel("quiet"))>>}

InitAlerts ==
    /\ pc = "alerts"
    /\ min_score \in {1, DEFAULT_MIN_SCORE, AUTO_SAVE_MIN_SCORE}
    /\ \E m \in 0..MaxAlerts :
          alert_data \in
             {[p \in 1..m |-> <<s[p], fr[p][1], fr[p][2]>>] :
                 s \in {t \in [1..m -> BatchSymbols] :
                           \A p, q \in 1..m : p # q => t[p] # t[q]},
                 fr \in [1..m -> AlertFrames]}
    /\ rows = <<>> /\ df_alerts = NoFrame
    /\ i = 0
    /\ df = <<>> /\ symbol = "" /\ combo = "" /\ lookback_days = 0
    /\ skip_until = 0 /\ trades = <<>> /\ result = NotReturned
    /\ IdlePair /\ IdleBatch /\ IdleEntry /\ IdleScore
    /\ IdleDetect /\ IdleStore

\* one iteration of  for sym, df in data.items()
AlertSymbol ==
    /\ pc = "alerts"
    /\ i < Len(alert_data)
    /\ rows' = alert_step(rows, alert_data[i + 1][1], alert_data[i + 1][2],
                          alert_data[i + 1][3], min_score)
    /\ i' = i + 1
    /\ UNCHANGED <<pc, min_score, alert_data, df_alerts>>
    /\ UNCHANGED <<df, symbol, combo, lookback_days, skip_until, trades, result>>
    /\ UNCHANGED <<pairVars, batchVars, entryVars, scoreVars, fired, storeVars>>

\* the frame is built, sorted when it has rows, and returned
AlertReturn ==
    /\ pc = "alerts"
    /\ i >= Len(alert_data)
    /\ df_alerts' \in sort_values(rows)
    /\ pc' = "done"
    /\ UNCHANGED <<min_score, alert_data, rows>>
    /\ UNCHANGED <<btVars, pairVars, batchVars, entryVars, scoreVars, fired,
                   storeVars>>

NextAlerts == AlertSymbol \/ AlertReturn

SpecAlerts == InitAlerts /\ [][NextAlerts]_vars

\* the score_stock result a returned row was built from
AlertSource(r) ==
    LET p == CHOOSE q \in 1..Len(alert_data) : alert_data[q][1] = r.Symbol
    IN  score_stock(alert_data[p][3])
AlertsReturned == pc = "done" /\ df_alerts # NoFrame

\* C21: in every row returned by generate_alerts, Direction is Bullish
\* exactly when bullish_score >= bearish_score, Score is the larger of the
\* two scores and is at least min_score, and the rows come in
\* non-increasing Score order.
C21_AlertRows ==
    AlertsReturned =>
       /\ \A p \in 1..Len(df_alerts) :
             LET r == df_alerts[p]
                 res == AlertSource(r)
             IN  /\ r.Bullish = res.bullish_score
                 /\ r.Bearish = res.bearish_score
                 /\ (r.Direction = "Bullish") <=> (res.bullish_score >= res.bearish_score)
                 /\ r.Direction \in {"Bullish", "Bearish"}
                 /\ r.Score >= res.bullish_score /\ r.Score >= res.bearish_score
                 /\ r.Score \in {res.bullish_score, res.bearish_score}
                 /\ r.Score >= min_score
       /\ \A p \in 1..(Len(df_alerts) - 1) :
             df_alerts[p].Score >= df_alerts[p + 1].Score

\* three rows are returned, one of them a tie shown as Bullish, and the
\* loop had collected them in another order than the returned one
C21_Witness ==
    /\ AlertsReturned
    /\ Len(df_alerts) = 3
    /\ \E p \in 1..3 : df_alerts[p].Bullish = df_alerts[p].Bearish
                       /\ df_alerts[p].Direction = "Bullish"
    /\ \E p \in 1..3 : df_alerts[p].Direction = "Bearish"
    /\ df_alerts # rows
    /\ df_alerts[1].Score > df_alerts[3].Score

----------------------------------------------------------------------------
(* Flat series *)

FlatScored ==
    /\ Recommended
    /\ frame_len = FlatLen
    /\ \E c \in {1000, 5} : frame = FlatFrame(FlatLen, c, 50)

\* C22: on a flat series of 100 identical bars (RSI neutral, MACD on its
\* signal line, zero-width bands, no trend, normal volume, no breakout, no
\* pattern) score_stock returns bullish_score = bearish_score = 0 and
\* recommend_combo returns 'No clear setup'.
C22_FlatScoresZero ==
    FlatScored =>
       /\ scored.bullish_score = 0
       /\ scored.bearish_score = 0
       /\ rec.combo = "No clear setup"

\* what the code returns on that series: the MACD rule credits the
\* bearish side when MACD equals its signal line
C22_FlatOutcome ==
    FlatScored =>
       /\ scored.signals.MACD = "Bearish"
       /\ scored.bullish_score = 0
       /\ scored.bearish_score = 1
       /\ scored.criteria = <<[criterion |-> "MACD", signal |-> "bearish"]>>
       /\ ~scored.is_breakout /\ ~scored.is_breakdown
       /\ scored.close_pct = <<1, 2>>
       /\ rec.combo = "No clear setup"

----------------------------------------------------------------------------
(* SpecDetect: detect_combo_signal on a window (backtester.py:108-109),    *)
(* then score_stock and recommend_combo on the same window                 *)
(* (pages/page_alerts.py:153-162), so that the detection predicate and the *)
(* checklists are read on the same bars.  frame holds the whole window.    *)

DetectLens == {MIN_BARS_DETECT - 1, LongLen}

\* the close of bar k of a window of n bars: constant, or rising over the
\* last ten bars so that the final bar leaves a consolidation
DetectClose(shape, n, k) ==
    IF shape = "rise" THEN 1000 + Max2(0, k - (n - 11)) ELSE 1000

DetectSels ==
    [rsi : {25, 75}, macd : {"cross_up", "cross_down"},
     ema : {"strong_bull", "strong_bear"},
     bb : {"lower", "upper", "mid"},
     adx : {"strong_bull", "strong_bear", "weak"},
     vol : {15, 16},
     pat : {{}, {<<"Hammer", "bullish">>}, {<<"Shooting Star", "bearish">>},
            {<<"Doji", "bullish">>}}]

\* a window of n bars: neutral bars, then a final bar with the indicator
\* values x
DetectWindow(n, shape, x) ==
    LET final == ScoreFrame(n, "flat", DetectClose(shape, n, n - 1), x)[Min2(n, TailLen)]
    IN  [p \in 1..n |->
           IF p = n THEN final
           ELSE Row("Neutral", p - 1, DetectClose(shape, n, p - 1))]

InitDetect ==
    /\ pc = "detect"
    /\ combo \in {Combos[p] : p \in 1..Len(Combos)}
    /\ \E n \in DetectLens, shape \in {"rise", "level"}, x \in DetectSels :
          \* the level closes and the short windows are drawn for one
          \* archetype
          /\ shape = "level" => combo = "Breakout"
          /\ n < MIN_BARS_DETECT => combo = "Mean Reversion" /\ shape = "rise"
          /\ frame = DetectWindow(n, shape, x)
    /\ frame_len = Len(frame)
    /\ fired = FALSE
    /\ scored = NoRow /\ rec = NoRow
    /\ df = <<>> /\ symbol = "" /\ lookback_days = 0
    /\ i = 0 /\ skip_until = 0 /\ trades = <<>> /\ result = NotReturned
    /\ IdlePair /\ IdleBatch /\ IdleEntry /\ IdleAlerts /\ IdleStore

\* if not detect_combo_signal(window, combo)
DetectCombo ==
    /\ pc = "detect"
    /\ fired' = detect_combo_signal(frame, combo)
    /\ pc' = "score"
    /\ UNCHANGED <<btVars, pairVars, batchVars, entryVars, scoreVars,
                   alertVars, storeVars>>

NextDetect == DetectCombo \/ ScoreStock \/ RecommendCombo

SpecDetect == InitDetect /\ [][NextDetect]_vars

\* the largest score of an archetype's checklist
ChecklistMax(c) == IF c = "Breakout" THEN 5 ELSE 4
Fired == pc = "done" /\ Scored /\ Recommended /\ fired

\* C23: whenever detect_combo_signal fires on a window, every checklist
\* condition that recommend_combo scores for that archetype holds on the
\* same window: the archetype has its largest checklist score.
C23_FullConfluence == Fired => ChecklistScore(combo) = ChecklistMax(combo)

\* C23, as the code has it: a firing Mean Reversion predicate has its whole
\* checklist; Trend Following has the EMA, volume and pattern conditions
\* and ADX above 25 in either direction; Breakout has all but the ADX
\* condition; Sell/Short has RSI overbought and one of band and pattern.
C23_DetectImplies ==
    Fired =>
       LET g == scored.signals
           last_row == FinalRow
       IN  CASE combo = "Mean Reversion" -> ChecklistScore(combo) = 4
             [] combo = "Trend Following" ->
                  /\ ChecklistScore(combo) >= 3
                  /\ In("Bullish", g.EMA_Trend) /\ In("High", g.Volume)
                  /\ PatternCount("bullish") > 0
                  /\ last_row.ADX > 25
             [] combo = "Breakout" ->
                  /\ ChecklistScore(combo) >= 4
                  /\ scored.is_breakout /\ In("High", g.Volume)
                  /\ In("Bullish", g.MACD)
             [] OTHER ->
                  /\ ChecklistScore(combo) >= 2
                  /\ In("Overbought", g.RSI)
                  /\ (In("Upper", g.BB) \/ PatternCount("bearish") > 0)

\* Trend Following fires while the ADX trend is bearish, so its checklist
\* stays at 3 of 4
C23_Witness ==
    /\ Fired
    /\ combo = "Trend Following"
    /\ In("Strong Bearish", scored.signals.ADX)
    /\ ChecklistScore(combo) = 3

C23_WitnessMeanReversion ==
    Fired /\ combo = "Mean Reversion" /\ ChecklistScore(combo) = 4
C23_WitnessBreakout ==
    Fired /\ combo = "Breakout" /\ ChecklistScore(combo) = 4
C23_WitnessShort ==
    Fired /\ combo = "Sell/Short" /\ ChecklistScore(combo) = 2

----------------------------------------------------------------------------
(* Degenerate numerics *)

\* C24: degenerate numerics never raise: a signal detected on a bar whose
\* close is 0 gives backtest_combo a result like any other bar, no
\* exception leaves the call.
C24_ZeroCloseNoRaise ==
    (pc \in {"scan", "done", "raised"} /\ Len(df) >= MIN_BARS_BACKTEST) =>
       /\ pc # "raised"
       /\ result # Raised

----------------------------------------------------------------------------
(* Short histories *)

\* C25: score_stock fails with an insufficient-history outcome on fewer
\* than 50 bars: no scores are ever returned for a frame of fewer than 50
\* bars.
C25_ShortHistoryRejected ==
    Scored => frame_len >= MIN_BARS_SCORE

\* what the code returns on 30 bars: scores from the indicators that are
\* out of warm-up
C25_ShortHistoryScored ==
    (Scored /\ frame_len = 30) =>
       /\ scored.signals.MACD = "" /\ scored.signals.EMA_Trend = ""
       /\ scored.bullish_score >= 1
       /\ HasCrit("Bollinger Band", "bullish")

----------------------------------------------------------------------------
(* Scan range *)

\* the call ran its loop to the end on a history with bars to scan; the
\* loop has then evaluated the indices below i
ScanCompleted == pc = "done" /\ Len(df) > MIN_BARS_BACKTEST /\ result # Raised

\* C26: the scan excludes exactly the last 19 bars: the highest index at
\* which backtest_combo evaluates the detection predicate is len - 20.
C26_LastNineteenExcluded == ScanCompleted => i - 1 = Len(df) - 20

\* C26, as the code has it: the scan excludes the last 20 bars; the highest
\* index evaluated is len - 21, no trade is entered after it, and its
\* 20-bar forward window ends on the last bar.
C26_LastTwentyExcluded ==
    /\ (pc = "scan" /\ Len(df) >= MIN_BARS_BACKTEST) => i <= Len(df) - 20
    /\ ScanCompleted =>
          /\ i - 1 = Len(df) - 21
          /\ (i - 1) + 20 = Len(df) - 1
          /\ \A p \in 1..Len(result.trades) :
                result.trades[p].entry_date <= Len(df) - 21

\* bar len - 20 satisfies the predicate and is not inside a skip, and the
\* call returns without a trade on it
C26_Witness ==
    /\ ScanCompleted
    /\ Fires(Len(df) - 20)
    /\ skip_until <= Len(df) - 20
    /\ \A p \in 1..Len(result.trades) :
          result.trades[p].entry_date < Len(df) - 20
    /\ result.trades # <<>>

----------------------------------------------------------------------------
(* Shape of the result of backtest_combo *)

\* C29: in every result of backtest_combo total_signals is the number of
\* trades, the trades come in strictly increasing entry-index order, and
\* total_signals is 0 exactly when trades is empty, in which case the six
\* win-rate and average-return fields are 0.
C29_ResultShape ==
    (pc = "done" /\ result # Raised) =>
       /\ result.total_signals = Len(result.trades)
       /\ result.trades = trades
       /\ \A p \in 1..(Len(result.trades) - 1) :
             result.trades[p].entry_date < result.trades[p + 1].entry_date
       /\ (result.total_signals = 0) <=> (result.trades = <<>>)
       /\ result.trades = <<>> =>
             /\ result.win_rate_5d = 0 /\ result.win_rate_10d = 0
             /\ result.win_rate_20d = 0
             /\ result.avg_return_5d = 0 /\ result.avg_return_10d = 0
             /\ result.avg_return_20d = 0

\* a result with two trades, one of them a loser at 5 bars
C29_Witness ==
    /\ pc = "done" /\ result # Raised
    /\ result.total_signals = 2
    /\ result.trades[1].entry_date < result.trades[2].entry_date
    /\ \E p \in 1..2 : result.trades[p].return_5d <= 0

\* a scanned history on which the predicate never fired
C29_WitnessEmpty ==
    /\ pc = "done" /\ Len(df) > MIN_BARS_BACKTEST
    /\ result.total_signals = 0 /\ result.trades = <<>>
    /\ i = Len(df) - FORWARD_BARS

----------------------------------------------------------------------------
(* Order of the entry levels *)

PositiveClose == Checked /\ GuardPasses /\ last.Close # NaN /\ last.Close > 0

C30_WitnessZeroAtr ==
    /\ PositiveClose
    /\ last.ATR = 0 /\ last.Low = last.Close /\ last.High = last.Close
    /\ bull.stop_loss < bull.entry_price /\ bull.entry_price < bull.target_1

----------------------------------------------------------------------------
(* The alert history (screener/alert_history.py) and the auto-save         *)
(* scheduler (screener/scheduler.py).  A date is a day number: the code's  *)
(* 'YYYY-MM-DD' strings compare as their days do.  A stored record keeps   *)
(* its symbol, date and market; the direction, score, price, criteria,     *)
(* pattern and combo copied from the alert row are left out.               *)

MaxDays == 3        \* calendar days a behaviour spans
MaxFetches == 2     \* fetch_batch calls counted per market and day

Markets == {"us", "indian"}          \* keys of MARKET_TIMINGS
StoreSymbols == {"A", "B"}

\* the Symbol column of a frame built by generate_alerts: one row per key
\* of its input dict, so no symbol twice
AlertLists ==
    {<<>>} \cup {<<s>> : s \in StoreSymbols}
           \cup {<<p[1], p[2]>> :
                    p \in {q \in StoreSymbols \X StoreSymbols : q[1] # q[2]}}

Keys(hist) == {<<hist[p].symbol, hist[p].date>> : p \in 1..Len(hist)}

RECURSIVE new_records(_, _, _, _)
new_records(alerts, existing_today, day, market) ==
    IF alerts = <<>> THEN <<>>
    ELSE LET rest == new_records(Tail(alerts), existing_today, day, market)
         IN  IF <<Head(alerts), day>> \in existing_today
             THEN rest
             ELSE <<[symbol |-> Head(alerts), date |-> day, market |-> market]>>
                  \o rest

save_alerts_append_all(hist, alerts, day, market) ==
    LET added == new_records(alerts, {}, day, market)
    IN  [history |-> hist \o added, returned |-> Len(added)]

\* save_alerts: the keys of the loaded history are collected once, before
\* the loop over the rows
save_alerts(hist, alerts, day, market) ==
    IF alerts = <<>> THEN [history |-> hist, returned |-> 0]
    ELSE LET added == new_records(alerts, Keys(hist), day, market)
         IN  [history |-> hist \o added, returned |-> Len(added)]

RECURSIVE keep_records(_, _, _)
\* [a for a in history if keep(a)], keep given as the set of kept dates
\* and the symbol to drop on the other dates
keep_records(hist, kept_dates, dropped) ==
    IF hist = <<>> THEN <<>>
    ELSE LET rest == keep_records(Tail(hist), kept_dates, dropped)
         IN  IF Head(hist).date \in kept_dates \/ Head(hist).symbol # dropped
             THEN <<Head(hist)>> \o rest
             ELSE rest

delete_alert(hist, sym, date) ==
    LET left == keep_records(hist, (0..MaxDays) \ {date}, sym)
    IN  [history |-> left, returned |-> Len(left) < Len(hist)]

RECURSIVE recent_records(_, _)
recent_records(hist, cutoff) ==
    IF hist = <<>> THEN <<>>
    ELSE LET rest == recent_records(Tail(hist), cutoff)
         IN  IF Head(hist).date >= cutoff THEN <<Head(hist)>> \o rest ELSE rest

clear_old_alerts(hist, day, days_to_keep) ==
    LET left == recent_records(hist, day - days_to_keep)
    IN  [history |-> left, returned |-> Len(hist) - Len(left)]

\* the scheduler variables, where the history is used alone
NoSchedule ==
    /\ last_run = [m \in Markets |-> 0]
    /\ market_closed = [m \in Markets |-> FALSE]
    /\ fetches = [m \in Markets |-> 0]

IdleOthers ==
    /\ IdleBacktest /\ IdlePair /\ IdleBatch /\ IdleEntry /\ IdleScore
    /\ IdleDetect /\ IdleAlerts

otherVars == <<btVars, pairVars, batchVars, entryVars, scoreVars, fired,
               alertVars>>
schedVars == <<last_run, market_closed, fetches>>

InitHistory ==
    /\ pc = "store"
    /\ history = <<>> /\ today = 1 /\ returned = 0 /\ call = ""
    /\ NoSchedule
    /\ IdleOthers

SaveAlerts ==
    \E alerts \in AlertLists, market \in Markets :
       LET r == save_alerts(history, alerts, today, market)
       IN  /\ history' = r.history
           /\ returned' = r.returned
           /\ call' = "save_alerts"
           /\ UNCHANGED <<pc, today, schedVars, otherVars>>

DeleteAlert ==
    \E sym \in StoreSymbols, date \in 1..MaxDays :
       LET r == delete_alert(history, sym, date)
       IN  /\ history' = r.history
           /\ returned' = r.returned
           /\ call' = "delete_alert"
           /\ UNCHANGED <<pc, today, schedVars, otherVars>>

ClearOldAlerts ==
    \E days_to_keep \in {0, 1} :
       LET r == clear_old_alerts(history, today, days_to_keep)
       IN  /\ history' = r.history
           /\ returned' = r.returned
           /\ call' = "clear_old_alerts"
           /\ UNCHANGED <<pc, today, schedVars, otherVars>>

\* the local date changes
Midnight ==
    /\ today < MaxDays
    /\ today' = today + 1
    /\ fetches' = [m \in Markets |-> 0]
    /\ call' = ""
    /\ UNCHANGED <<pc, history, returned, last_run, market_closed, otherVars>>

NextHistory == SaveAlerts \/ DeleteAlert \/ ClearOldAlerts \/ Midnight

SpecHistory == InitHistory /\ [][NextHistory]_vars

OnePerKey ==
    \A p, q \in 1..Len(history) :
        (history[p].symbol = history[q].symbol
           /\ history[p].date = history[q].date) => p = q

----------------------------------------------------------------------------
(* SpecSched: calls of run_auto_save over the days, with the market clocks *)
(* and the outcome of the fetch and of the scan left open.                 *)

\* is_market_closed: False for a market without timings
is_market_closed(market) ==
    IF market \in Markets THEN market_closed[market] ELSE FALSE

should_run_auto_save(market) ==
    IF market \in Markets /\ last_run[market] = today THEN FALSE
    ELSE is_market_closed(market)

\* whether a call that ran with this outcome reaches the update of
\* last_run: only past the three early returns
mark_run(market, outcome) == outcome = "alerts"

\* what a call that should run meets: no symbol list, no data fetched, no
\* alert at min_score, or alerts
Outcomes == {"no_symbols", "no_data", "no_alerts", "alerts"}

\* the alert symbols of a scan that finds some: one symbol, or two
ScanLists == {q \in AlertLists : q # <<>> /\ q[1] = "A"}

InitSched ==
    /\ pc = "sched"
    /\ history = <<>> /\ today = 1 /\ returned = 0 /\ call = ""
    /\ last_run = [m \in Markets |-> 0]
    /\ market_closed \in [Markets -> BOOLEAN]
    /\ fetches = [m \in Markets |-> 0]
    /\ IdleOthers

\* one call of run_auto_save(market)
RunAutoSave ==
    \E market \in Markets \cup {"uk"}, outcome \in Outcomes,
       alerts \in ScanLists :
       /\ call' = "run_auto_save"
       /\ IF ~ should_run_auto_save(market) \/ outcome = "no_symbols"
          THEN /\ returned' = 0
               /\ UNCHANGED <<history, last_run, fetches>>
          ELSE /\ fetches[market] < MaxFetches
               /\ fetches' = [fetches EXCEPT ![market] = @ + 1]
               /\ IF outcome = "alerts"
                  THEN LET r == save_alerts(history, alerts, today, market)
                       IN  history' = r.history /\ returned' = r.returned
                  ELSE returned' = 0 /\ UNCHANGED history
               /\ IF mark_run(market, outcome)
                  THEN last_run' = [last_run EXCEPT ![market] = today]
                  ELSE UNCHANGED last_run
       /\ UNCHANGED <<pc, today, market_closed, otherVars>>

\* a market's clock passes its close, or the next session's day begins
MarketClock ==
    \E market \in Markets :
       /\ market_closed' = [market_closed EXCEPT ![market] = ~ @]
       /\ call' = ""
       /\ UNCHANGED <<pc, history, today, last_run, fetches, returned, otherVars>>

NextSched == RunAutoSave \/ MarketClock \/ Midnight

SpecSched == InitSched /\ [][NextSched]_vars

\* C27: for each market run_auto_save scans at most once per calendar day:
\* once a call has fetched data on a day, no later call for that market
\* fetches again on that day, whatever the first scan found.
C27_OneScanPerDay == \A m \in Markets : fetches[m] <= 1

\* what the code gives: no further scan on a day once a scan of that day
\* has saved alerts and recorded the run
C27_OneScanAfterSave ==
    [][\A m \in Markets :
          (last_run[m] = today /\ today' = today) => fetches'[m] = fetches[m]]_vars

====
